---- MODULE Spec2Model ----
(***************************************************************************)
(* A model of the lazy Stream engine of nd-forge/stream (stream.go lines   *)
(* 1-584, transform.go).  A Stream is a recipe: a tree of operator nodes.  *)
(* A drive runs the nested seq closures of that tree; the model follows    *)
(* the single thread of control from closure to closure, one call, one     *)
(* yield, one return of yield, or one return of a seq function per step.   *)
(***************************************************************************)
EXTENDS Integers, Sequences, FiniteSets

\* ---------------------------------------------------------------- bounds
MaxLen == 3
MaxVal == 3
MaxN == 2
MaxOps == 2
MaxDrives == 2
MaxEmit == 4
MaxWrites == 1

VARIABLES
    s,        \* the Stream value under construction or being driven
    tie,      \* how this build of sort.Slice orders elements that compare equal
    fr,       \* path -> the locals of that node's seq closure
    ctl,      \* where the thread of control is
    term,     \* the terminal operation in progress
    result,   \* what the terminal operation has accumulated
    prev,     \* the result of the previous completed ToSlice on s
    obs       \* observation counters of the current drive

vars == <<s, tie, fr, ctl, term, result, prev, obs>>

\* ------------------------------------------------- caller-supplied functions
Min2(a, b) == IF a < b THEN a ELSE b
Max2(a, b) == IF a > b THEN a ELSE b

Preds == {"even", "lt2"}
Pred(predicate, v) ==
    CASE predicate = "even" -> v % 2 = 0
      [] predicate = "lt2" -> v < 2
      [] predicate = "not_even" -> ~(v % 2 = 0)
      [] predicate = "not_lt2" -> ~(v < 2)

Negated(predicate) == IF predicate = "even" THEN "not_even" ELSE "not_lt2"

Key(key, v) == IF key = "self" THEN v ELSE v % 2

Cmps == {"asc", "half"}
Cmp(cmp, a, b) == IF cmp = "asc" THEN a - b ELSE (a \div 2) - (b \div 2)

Fns == {"inc", "dbl"}
Fn(fn, v) == IF fn = "inc" THEN v + 1 ELSE v * 2

FnIndexed(i, v) == i + v

RECURSIVE Copies(_, _)
Copies(v, n) == IF n <= 0 THEN <<>> ELSE <<v>> \o Copies(v, n - 1)

\* the FlatMap function of the model: v |-> v copies of v
FnSlice(v) == Copies(v, v)

\* ------------------------------------------------------------ Stream values
NoStream == [op |-> "none", arg |-> 0, kids |-> <<>>, ty |-> "none"]

Node(op, arg, kids, ty) == [op |-> op, arg |-> arg, kids |-> kids, ty |-> ty]

OfTyped(items, ty) == Node("Of", items, <<>>, ty)
Of(items) == OfTyped(items, "int")
From(items) == Of(items)
Repeat(value) == Node("Repeat", value, <<>>, "int")
Iterate(seed, fn) == Node("Iterate", <<seed, fn>>, <<>>, "int")
Naturals == Iterate(0, "inc")
Empty(ty) == Node("Empty", 0, <<>>, ty)

Filter(st, predicate) == Node("Filter", predicate, <<st>>, st.ty)
Reject(st, predicate) == Filter(st, Negated(predicate))
Sort(st, cmp) == Node("Sort", cmp, <<st>>, st.ty)
Reverse(st) == Node("Reverse", 0, <<st>>, st.ty)
\* a variant of Take without the n <= 0 case
TakeUnguarded(st, n) == Node("Take", n, <<st>>, st.ty)

Take(st, n) == IF n <= 0 THEN Empty(st.ty) ELSE Node("Take", n, <<st>>, st.ty)
\* a variant of TakeLast without the n <= 0 case
TakeLastUnguarded(st, n) == Node("TakeLast", n, <<st>>, st.ty)

TakeLast(st, n) == IF n <= 0 THEN Empty(st.ty) ELSE Node("TakeLast", n, <<st>>, st.ty)
Skip(st, n) == IF n <= 0 THEN st ELSE Node("Skip", n, <<st>>, st.ty)
TakeWhile(st, predicate) == Node("TakeWhile", predicate, <<st>>, st.ty)
DropWhile(st, predicate) == Node("DropWhile", predicate, <<st>>, st.ty)
Distinct(st, key) == Node("Distinct", key, <<st>>, st.ty)
Shuffle(st) == Node("Shuffle", 0, <<st>>, st.ty)
Peek(st) == Node("Peek", 0, <<st>>, st.ty)
Chain(st, others) == Node("Chain", 0, <<st>> \o others, st.ty)
Map(st, fn) == Node("Map", fn, <<st>>, "int")
MapIndexed(st) == Node("MapIndexed", 0, <<st>>, "int")
FlatMap(st) == Node("FlatMap", 0, <<st>>, "int")
Zip(s1, s2) == Node("Zip", 0, <<s1, s2>>, "pair")
Flatten(st) == Node("Flatten", 0, <<st>>, "int")
Enumerate(st) == Node("Enumerate", 0, <<st>>, "pair")

\* a variant of Pair with its fields the other way round
PairSwapped(first, second) == <<second, first>>

\* Pair[A, B]{First: first, Second: second}
Pair(first, second) == <<first, second>>

RECURSIVE HasOp(_, _)
HasOp(st, op) == st.op = op \/ \E k \in DOMAIN st.kids : HasOp(st.kids[k], op)

RECURSIVE NodeAt(_, _)
NodeAt(st, p) == IF p = <<>> THEN st ELSE NodeAt(st.kids[Head(p)], Tail(p))

RECURSIVE Paths(_)
Paths(st) ==
    {<<>>} \cup UNION {{<<k>> \o q : q \in Paths(st.kids[k])} : k \in DOMAIN st.kids}

Front(p) == SubSeq(p, 1, Len(p) - 1)
Back(p) == p[Len(p)]

\* ------------------------------------------------------- closure locals
Idle ==
    [pc |-> "idle", i |-> 0, buf |-> <<>>, seen |-> {}, dropping |-> FALSE,
     v |-> 0, exit |-> FALSE, pull |-> "none", out |-> 0, act |-> 0]

\* the locals of a seq closure when it is called: every local is declared
\* inside the closure, so each call starts from fresh values
Enter(f) == [Idle EXCEPT !.pc = "run", !.act = f.act + 1]

IdleCtl == [who |-> "idle", at |-> <<>>, mode |-> "idle", from |-> 0, val |-> 0, ok |-> TRUE]

NodeCtl(p, mode, from, val, ok) ==
    [who |-> "node", at |-> p, mode |-> mode, from |-> from, val |-> val, ok |-> ok]

TermCtl(mode, val) ==
    [who |-> "term", at |-> <<>>, mode |-> mode, from |-> 0, val |-> val, ok |-> TRUE]

\* a step of a closure: its new locals, the next place of control and the
\* number of caller-supplied functions it invoked
StepOf(f, c, n) == [f |-> f, c |-> c, fn |-> n]

\* yield(v): control passes to the loop body of the consumer
Yield(p, f, v, n) ==
    StepOf([f EXCEPT !.out = @ + 1],
           IF p = <<>> THEN TermCtl("item", v)
           ELSE NodeCtl(Front(p), "item", Back(p), v, TRUE), n)

\* the seq function returns to its caller
Return(p, f, n) ==
    StepOf([f EXCEPT !.pc = "done"],
           IF p = <<>> THEN TermCtl("done", 0)
           ELSE NodeCtl(Front(p), "done", Back(p), 0, TRUE), n)

\* the loop body returns ok to the yield of child k
Resume(p, f, k, ok, n) == StepOf(f, NodeCtl(p \o <<k>>, "ret", 0, 0, ok), n)

\* `return` inside a range-over-func loop body: the body returns false and
\* the function returns once the child's seq has returned
Exit(p, f, k, n) == Resume(p, [f EXCEPT !.exit = TRUE], k, FALSE, n)

\* seq(yield) of child k is called
Call(p, f, k, n) == StepOf(f, NodeCtl(p \o <<k>>, "call", 0, 0, TRUE), n)

\* for _, v := range items { if !yield(v) { return } }, with i items done
SliceLoop(p, f, items, n) ==
    IF f.i < Len(items) THEN Yield(p, f, items[f.i + 1], n) ELSE Return(p, f, n)


\* ------------------------------------------------------------ constructors
\* Of: for _, v := range items { if !yield(v) { return } }
OfStep(p, nd, f, c) ==
    CASE c.mode = "call" -> SliceLoop(p, Enter(f), nd.arg, 0)
      [] c.mode = "ret" ->
            IF ~c.ok THEN Return(p, f, 0)
            ELSE SliceLoop(p, [f EXCEPT !.i = @ + 1], nd.arg, 0)

\* Take(n <= 0), TakeLast(n <= 0): func(yield func(T) bool) {}
EmptyStep(p, nd, f, c) == Return(p, Enter(f), 0)

\* Repeat: for { if !yield(value) { return } }
RepeatStep(p, nd, f, c) ==
    CASE c.mode = "call" -> Yield(p, Enter(f), nd.arg, 0)
      [] c.mode = "ret" ->
            IF ~c.ok THEN Return(p, f, 0) ELSE Yield(p, f, nd.arg, 0)

\* a variant of Iterate that computes the successor before it yields
IterateStepAhead(p, nd, f, c) ==
    CASE c.mode = "call" ->
            Yield(p, [Enter(f) EXCEPT !.v = Fn(nd.arg[2], nd.arg[1])], nd.arg[1], 1)
      [] c.mode = "ret" ->
            IF ~c.ok THEN Return(p, f, 0)
            ELSE Yield(p, [f EXCEPT !.v = Fn(nd.arg[2], f.v)], f.v, 1)

\* Iterate: v := seed; for { if !yield(v) { return }; v = fn(v) }
IterateStep(p, nd, f, c) ==
    CASE c.mode = "call" ->
            Yield(p, [Enter(f) EXCEPT !.v = nd.arg[1]], nd.arg[1], 0)
      [] c.mode = "ret" ->
            IF ~c.ok THEN Return(p, f, 0)
            ELSE LET v == Fn(nd.arg[2], f.v)
                 IN Yield(p, [f EXCEPT !.v = v], v, 1)

\* ------------------------------------------------------ chainable methods
\* if !yield(v) { return } as the last statement of a range-over-func body
OnRet(p, f, c) ==
    IF ~c.ok THEN Exit(p, f, 1, 0) ELSE Resume(p, f, 1, TRUE, 0)

\* a variant of Filter that hands every element on without testing it
FilterStepUntested(p, nd, f, c) ==
    CASE c.mode = "call" -> Call(p, Enter(f), 1, 0)
      [] c.mode = "item" -> Yield(p, f, c.val, 0)
      [] c.mode = "ret" -> OnRet(p, f, c)
      [] c.mode = "done" -> Return(p, f, 0)

\* a variant of Filter that tests all of its source into a slice and then
\* hands the slice on
FilterStepEager(p, nd, f, c) ==
    CASE c.mode = "call" -> Call(p, Enter(f), 1, 0)
      [] c.mode = "item" ->
            IF Pred(nd.arg, c.val)
            THEN Resume(p, [f EXCEPT !.buf = Append(@, c.val)], 1, TRUE, 1)
            ELSE Resume(p, f, 1, TRUE, 1)
      [] c.mode = "done" -> SliceLoop(p, [f EXCEPT !.pc = "emit"], f.buf, 0)
      [] c.mode = "ret" ->
            IF ~c.ok THEN Return(p, f, 0)
            ELSE SliceLoop(p, [f EXCEPT !.i = @ + 1], f.buf, 0)

FilterStep(p, nd, f, c) ==
    CASE c.mode = "call" -> Call(p, Enter(f), 1, 0)
      [] c.mode = "item" ->
            IF Pred(nd.arg, c.val) THEN Yield(p, f, c.val, 1)
            ELSE Resume(p, f, 1, TRUE, 1)
      [] c.mode = "ret" -> OnRet(p, f, c)
      [] c.mode = "done" -> Return(p, f, 0)

\* a variant of the count of Take that returns one element late
TakeCountedLate(p, f, n) ==
    LET g == [f EXCEPT !.i = @ + 1]
    IN IF g.i > n THEN Exit(p, g, 1, 0) ELSE Resume(p, g, 1, TRUE, 0)

\* i++; if i >= n { return }
TakeCounted(p, f, n) ==
    LET g == [f EXCEPT !.i = @ + 1]
    IN IF g.i >= n THEN Exit(p, g, 1, 0) ELSE Resume(p, g, 1, TRUE, 0)

\* a variant of Take whose counter is declared outside the closure
TakeEnterHoisted(f) == [Enter(f) EXCEPT !.i = f.i]

\* i := 0 inside the closure of Take
TakeEnter(f) == Enter(f)

TakeStep(p, nd, f, c) ==
    CASE c.mode = "call" -> Call(p, TakeEnter(f), 1, 0)
      [] c.mode = "item" -> Yield(p, f, c.val, 0)
      [] c.mode = "ret" ->
            IF ~c.ok THEN Exit(p, f, 1, 0) ELSE TakeCounted(p, f, nd.arg)
      [] c.mode = "done" -> Return(p, f, 0)

\* a variant of Skip that tests the count after the increment
SkipStepLate(p, nd, f, c) ==
    CASE c.mode = "call" -> Call(p, Enter(f), 1, 0)
      [] c.mode = "item" ->
            IF f.i <= nd.arg THEN Resume(p, [f EXCEPT !.i = @ + 1], 1, TRUE, 0)
            ELSE Yield(p, f, c.val, 0)
      [] c.mode = "ret" -> OnRet(p, f, c)
      [] c.mode = "done" -> Return(p, f, 0)

SkipStep(p, nd, f, c) ==
    CASE c.mode = "call" -> Call(p, Enter(f), 1, 0)
      [] c.mode = "item" ->
            IF f.i < nd.arg THEN Resume(p, [f EXCEPT !.i = @ + 1], 1, TRUE, 0)
            ELSE Yield(p, f, c.val, 0)
      [] c.mode = "ret" -> OnRet(p, f, c)
      [] c.mode = "done" -> Return(p, f, 0)

\* a variant of TakeWhile that passes over a failing element and goes on
TakeWhileStepOn(p, nd, f, c) ==
    CASE c.mode = "call" -> Call(p, Enter(f), 1, 0)
      [] c.mode = "item" ->
            IF ~Pred(nd.arg, c.val) THEN Resume(p, f, 1, TRUE, 1)
            ELSE Yield(p, f, c.val, 1)
      [] c.mode = "ret" -> OnRet(p, f, c)
      [] c.mode = "done" -> Return(p, f, 0)

TakeWhileStep(p, nd, f, c) ==
    CASE c.mode = "call" -> Call(p, Enter(f), 1, 0)
      [] c.mode = "item" ->
            IF ~Pred(nd.arg, c.val) THEN Exit(p, f, 1, 1)
            ELSE Yield(p, f, c.val, 1)
      [] c.mode = "ret" -> OnRet(p, f, c)
      [] c.mode = "done" -> Return(p, f, 0)

\* a variant of DropWhile that goes on testing after the first failing element
DropWhileStepRetesting(p, nd, f, c) ==
    CASE c.mode = "call" -> Call(p, [Enter(f) EXCEPT !.dropping = TRUE], 1, 0)
      [] c.mode = "item" ->
            IF Pred(nd.arg, c.val) THEN Resume(p, f, 1, TRUE, 1)
            ELSE Yield(p, [f EXCEPT !.dropping = FALSE], c.val, 1)
      [] c.mode = "ret" -> OnRet(p, f, c)
      [] c.mode = "done" -> Return(p, f, 0)

DropWhileStep(p, nd, f, c) ==
    CASE c.mode = "call" -> Call(p, [Enter(f) EXCEPT !.dropping = TRUE], 1, 0)
      [] c.mode = "item" ->
            IF f.dropping
            THEN IF Pred(nd.arg, c.val) THEN Resume(p, f, 1, TRUE, 1)
                 ELSE Yield(p, [f EXCEPT !.dropping = FALSE], c.val, 1)
            ELSE Yield(p, f, c.val, 0)
      [] c.mode = "ret" -> OnRet(p, f, c)
      [] c.mode = "done" -> Return(p, f, 0)

\* a variant of Distinct whose seen set is made outside the closure
DistinctStepHoisted(p, nd, f, c) ==
    CASE c.mode = "call" -> Call(p, [Enter(f) EXCEPT !.seen = f.seen], 1, 0)
      [] c.mode = "item" ->
            LET k == Key(nd.arg, c.val)
            IN IF k \notin f.seen
               THEN Yield(p, [f EXCEPT !.seen = @ \cup {k}], c.val, 1)
               ELSE Resume(p, f, 1, TRUE, 1)
      [] c.mode = "ret" -> OnRet(p, f, c)
      [] c.mode = "done" -> Return(p, f, 0)

DistinctStep(p, nd, f, c) ==
    CASE c.mode = "call" -> Call(p, Enter(f), 1, 0)
      [] c.mode = "item" ->
            LET k == Key(nd.arg, c.val)
            IN IF k \notin f.seen
               THEN Yield(p, [f EXCEPT !.seen = @ \cup {k}], c.val, 1)
               ELSE Resume(p, f, 1, TRUE, 1)
      [] c.mode = "ret" -> OnRet(p, f, c)
      [] c.mode = "done" -> Return(p, f, 0)

\* fn(v); if !yield(v) { return }: i counts the calls of fn, as the
\* counter a caller's fn keeps
PeekStep(p, nd, f, c) ==
    CASE c.mode = "call" -> Call(p, Enter(f), 1, 0)
      [] c.mode = "item" -> Yield(p, [f EXCEPT !.i = @ + 1], c.val, 1)
      [] c.mode = "ret" -> OnRet(p, f, c)
      [] c.mode = "done" -> Return(p, f, 0)

\* a variant of Chain that breaks out of one member's loop only
ChainNextAll(p, nd, f, k) ==
    IF k >= Len(nd.kids) THEN Return(p, f, 0)
    ELSE Call(p, [f EXCEPT !.i = k + 1], k + 1, 0)

\* a variant of Chain that passes over the member after the one that returned
ChainNextSkipping(p, nd, f, k) ==
    IF f.exit \/ k + 1 >= Len(nd.kids) THEN Return(p, f, 0)
    ELSE Call(p, [f EXCEPT !.i = k + 2], k + 2, 0)

\* Chain: what follows the return of member k's seq: the function returns
\* if a loop body executed `return`, else the next member is driven
ChainNext(p, nd, f, k) ==
    IF f.exit \/ k >= Len(nd.kids) THEN Return(p, f, 0)
    ELSE Call(p, [f EXCEPT !.i = k + 1], k + 1, 0)

ChainStep(p, nd, f, c) ==
    CASE c.mode = "call" -> Call(p, [Enter(f) EXCEPT !.i = 1], 1, 0)
      [] c.mode = "item" -> Yield(p, f, c.val, 0)
      [] c.mode = "ret" ->
            IF ~c.ok THEN Exit(p, f, f.i, 0) ELSE Resume(p, f, f.i, TRUE, 0)
      [] c.mode = "done" -> ChainNext(p, nd, f, c.from)


\* ---------------------------------------------------- buffering operators
\* a variant of the collecting loop that hands each element on at once
CollectForward(p, f, c) == Yield(p, f, c.val, 0)

\* for v := range seq { buf = append(buf, v) }
Collect(p, f, c) == Resume(p, [f EXCEPT !.buf = Append(@, c.val)], 1, TRUE, 0)

\* for _, v := range buf { if !yield(v) { return } }: the emit loop is a
\* plain slice loop, so `return` leaves the function at once
EmitRet(p, f, c) ==
    IF ~c.ok THEN Return(p, f, 0)
    ELSE SliceLoop(p, [f EXCEPT !.i = @ + 1], f.buf, 0)

\* where x goes in a sorted prefix: sort.Slice promises a sorted permutation
\* and leaves the order of elements that compare equal to the implementation
\* ("keep": after its equals, "swap": before them)
RECURSIVE InsertAt(_, _, _, _, _)
InsertAt(sorted, x, cmp, t, j) ==
    IF j > Len(sorted) THEN j
    ELSE IF Cmp(cmp, x, sorted[j]) < 0 \/ (t = "swap" /\ Cmp(cmp, x, sorted[j]) = 0)
         THEN j
         ELSE InsertAt(sorted, x, cmp, t, j + 1)

RECURSIVE SortFrom(_, _, _, _, _)
SortFrom(buf, cmp, t, k, sorted) ==
    IF k > Len(buf) THEN sorted
    ELSE LET j == InsertAt(sorted, buf[k], cmp, t, 1)
         IN SortFrom(buf, cmp, t, k + 1,
                     SubSeq(sorted, 1, j - 1) \o <<buf[k]>> \o SubSeq(sorted, j, Len(sorted)))

IsSorted(buf, cmp) == \A k \in 1..(Len(buf) - 1) : Cmp(cmp, buf[k], buf[k + 1]) <= 0

\* a sort that moves elements that compare equal even in a slice already in order
SortSliceAlways(buf, cmp, t) == SortFrom(buf, cmp, t, 1, <<>>)

\* sort.Slice(buf, func(i, j int) bool { return cmp(buf[i], buf[j]) < 0 }):
\* a slice already in order is left as it is; otherwise the result is a
\* sorted permutation and, sort.Slice being documented as not stable, the
\* order of elements that compare equal is the implementation's (tie).  The
\* short slices of the model stand for slices of any length.
SortSlice(buf, cmp, t) ==
    IF IsSorted(buf, cmp) THEN buf ELSE SortFrom(buf, cmp, t, 1, <<>>)

\* sort.Slice compares at least each adjacent pair once
CmpCalls(buf) == Max2(Len(buf) - 1, 0)

\* a variant whose buf is declared outside the closure
BufferEnterKept(f) == [Enter(f) EXCEPT !.buf = f.buf]

\* var buf []T inside the closure: each call starts from an empty buffer
BufferEnter(f) == Enter(f)

SortStep(p, nd, f, c, t) ==
    CASE c.mode = "call" -> Call(p, BufferEnter(f), 1, 0)
      [] c.mode = "item" -> Collect(p, f, c)
      [] c.mode = "done" ->
            SliceLoop(p, [f EXCEPT !.buf = SortSlice(@, nd.arg, t), !.pc = "emit"],
                      SortSlice(f.buf, nd.arg, t), CmpCalls(f.buf))
      [] c.mode = "ret" -> EmitRet(p, f, c)

\* for i := len(buf) - 1; i >= 0; i-- { if !yield(buf[i]) { return } }
ReverseLoop(p, f) ==
    IF f.i >= 0 THEN Yield(p, f, f.buf[f.i + 1], 0) ELSE Return(p, f, 0)

ReverseStep(p, nd, f, c) ==
    CASE c.mode = "call" -> Call(p, BufferEnter(f), 1, 0)
      [] c.mode = "item" -> Collect(p, f, c)
      [] c.mode = "done" ->
            ReverseLoop(p, [f EXCEPT !.i = Len(f.buf) - 1, !.pc = "emit"])
      [] c.mode = "ret" ->
            IF ~c.ok THEN Return(p, f, 0)
            ELSE ReverseLoop(p, [f EXCEPT !.i = @ - 1])

\* start := len(buf) - n; if start < 0 { start = 0 }; range buf[start:]
\* a variant of the start of TakeLast that is one element late
TakeLastStartLate(buf, n) == Min2(Max2(Len(buf) - n, 0) + 1, Len(buf))

TakeLastStart(buf, n) == Max2(Len(buf) - n, 0)

TakeLastStep(p, nd, f, c) ==
    CASE c.mode = "call" -> Call(p, BufferEnter(f), 1, 0)
      [] c.mode = "item" -> Collect(p, f, c)
      [] c.mode = "done" ->
            SliceLoop(p, [f EXCEPT !.i = TakeLastStart(f.buf, nd.arg), !.pc = "emit"],
                      f.buf, 0)
      [] c.mode = "ret" -> EmitRet(p, f, c)

\* the orders rand.Shuffle can leave buf in
RECURSIVE Perms(_)
Perms(buf) ==
    IF buf = <<>> THEN {<<>>}
    ELSE UNION {{<<buf[k]>> \o q :
                    q \in Perms(SubSeq(buf, 1, k - 1) \o SubSeq(buf, k + 1, Len(buf)))} :
                k \in 1..Len(buf)}

ShuffleStep(p, nd, f, c, shuffled) ==
    CASE c.mode = "call" -> Call(p, BufferEnter(f), 1, 0)
      [] c.mode = "item" -> Collect(p, f, c)
      [] c.mode = "done" ->
            SliceLoop(p, [f EXCEPT !.buf = shuffled, !.pc = "emit"], shuffled, 0)
      [] c.mode = "ret" -> EmitRet(p, f, c)

\* ------------------------------------------------- top-level transforms
MapStep(p, nd, f, c) ==
    CASE c.mode = "call" -> Call(p, Enter(f), 1, 0)
      [] c.mode = "item" -> Yield(p, f, Fn(nd.arg, c.val), 1)
      [] c.mode = "ret" -> OnRet(p, f, c)
      [] c.mode = "done" -> Return(p, f, 0)

\* if !yield(...) { return }; i++
OnRetIndexed(p, f, c) ==
    IF ~c.ok THEN Exit(p, f, 1, 0)
    ELSE Resume(p, [f EXCEPT !.i = @ + 1], 1, TRUE, 0)

MapIndexedStep(p, nd, f, c) ==
    CASE c.mode = "call" -> Call(p, Enter(f), 1, 0)
      [] c.mode = "item" -> Yield(p, f, FnIndexed(f.i, c.val), 1)
      [] c.mode = "ret" -> OnRetIndexed(p, f, c)
      [] c.mode = "done" -> Return(p, f, 0)

EnumerateStep(p, nd, f, c) ==
    CASE c.mode = "call" -> Call(p, Enter(f), 1, 0)
      [] c.mode = "item" -> Yield(p, f, Pair(f.i, c.val), 0)
      [] c.mode = "ret" -> OnRetIndexed(p, f, c)
      [] c.mode = "done" -> Return(p, f, 0)

\* for _, u := range slice { if !yield(u) { return } } inside the outer
\* range-over-func loop: when the slice is done the outer body returns true
InnerLoop(p, f, n) ==
    IF f.i < Len(f.buf) THEN Yield(p, f, f.buf[f.i + 1], n)
    ELSE Resume(p, f, 1, TRUE, n)

InnerRet(p, f, c) ==
    IF ~c.ok THEN Exit(p, f, 1, 0)
    ELSE InnerLoop(p, [f EXCEPT !.i = @ + 1], 0)

FlatMapStep(p, nd, f, c) ==
    CASE c.mode = "call" -> Call(p, Enter(f), 1, 0)
      [] c.mode = "item" ->
            InnerLoop(p, [f EXCEPT !.buf = FnSlice(c.val), !.i = 0], 1)
      [] c.mode = "ret" -> InnerRet(p, f, c)
      [] c.mode = "done" -> Return(p, f, 0)

FlattenStep(p, nd, f, c) ==
    CASE c.mode = "call" -> Call(p, Enter(f), 1, 0)
      [] c.mode = "item" -> InnerLoop(p, [f EXCEPT !.buf = c.val, !.i = 0], 0)
      [] c.mode = "ret" -> InnerRet(p, f, c)
      [] c.mode = "done" -> Return(p, f, 0)

\* ------------------------------------------------------------------- Zip
\* The pull adapter over seq2 (iter.Pull) is a coroutine: pull = "new" before
\* its first next(), "run" while seq2 runs, "susp" while seq2 is suspended
\* inside its yield, "done" once seq2 has returned or stop() has run.

\* v2, ok := next()
PullNext(p, f, v1) ==
    CASE f.pull = "done" -> Exit(p, f, 1, 0)
      [] f.pull = "new" ->
            Call(p, [f EXCEPT !.v = v1, !.pull = "run", !.pc = "next"], 2, 0)
      [] f.pull = "susp" ->
            Resume(p, [f EXCEPT !.v = v1, !.pull = "run", !.pc = "next"], 2, TRUE, 0)

\* a variant of Zip without the deferred stop()
PullStopMissing(p, f) == Return(p, f, 0)

\* defer stop(): runs when the outer loop over seq1 is over
PullStop(p, f) ==
    CASE f.pull = "susp" ->
            Resume(p, [f EXCEPT !.pull = "run", !.pc = "stop"], 2, FALSE, 0)
      [] OTHER -> Return(p, [f EXCEPT !.pull = "done"], 0)

\* a variant of Zip that pulls from seq2 first and ranges over seq1 behind it
ZipStepAhead(p, nd, f, c) ==
    CASE c.mode = "call" ->
            Call(p, [Enter(f) EXCEPT !.pull = "run", !.pc = "next"], 2, 0)
      [] c.mode = "item" /\ c.from = 2 ->
            IF f.pc # "next" THEN Resume(p, f, 2, FALSE, 0)
            ELSE IF f.i = 0
                 THEN Call(p, [f EXCEPT !.v = c.val, !.pull = "susp", !.pc = "run", !.i = 1], 1, 0)
                 ELSE Resume(p, [f EXCEPT !.v = c.val, !.pull = "susp", !.pc = "run"], 1, TRUE, 0)
      [] c.mode = "item" /\ c.from = 1 -> Yield(p, f, Pair(c.val, f.v), 0)
      [] c.mode = "done" /\ c.from = 2 ->
            IF f.pc = "next" /\ f.i = 1
            THEN Exit(p, [f EXCEPT !.pull = "done", !.pc = "run"], 1, 0)
            ELSE Return(p, [f EXCEPT !.pull = "done"], 0)
      [] c.mode = "ret" ->
            IF ~c.ok THEN Exit(p, f, 1, 0)
            ELSE Resume(p, [f EXCEPT !.pull = "run", !.pc = "next"], 2, TRUE, 0)
      [] c.mode = "done" /\ c.from = 1 -> PullStop(p, f)

ZipStep(p, nd, f, c) ==
    CASE c.mode = "call" -> Call(p, [Enter(f) EXCEPT !.pull = "new"], 1, 0)
      [] c.mode = "item" /\ c.from = 1 -> PullNext(p, f, c.val)
      [] c.mode = "item" /\ c.from = 2 ->
            \* seq2 called the adapter's yield
            IF f.pc = "next"
            THEN Yield(p, [f EXCEPT !.pull = "susp", !.pc = "run"], Pair(f.v, c.val), 0)
            ELSE Resume(p, f, 2, FALSE, 0)
      [] c.mode = "done" /\ c.from = 2 ->
            \* seq2 returned: next() reports exhaustion, or stop() returns
            IF f.pc = "next"
            THEN Exit(p, [f EXCEPT !.pull = "done", !.pc = "run"], 1, 0)
            ELSE Return(p, [f EXCEPT !.pull = "done"], 0)
      [] c.mode = "ret" -> OnRet(p, f, c)
      [] c.mode = "done" /\ c.from = 1 -> PullStop(p, f)


\* ------------------------------------------------------------ the machine
Cur == NodeAt(s, ctl.at)

At(op) == ctl.who = "node" /\ Cur.op = op

\* one step of the closure that has control
Do(r) ==
    /\ fr' = [fr EXCEPT ![ctl.at] = r.f]
    /\ ctl' = r.c
    /\ obs' = [obs EXCEPT !.calls = @ + r.fn,
                           !.probes = @ + (IF Cur.op = "Peek" /\ ctl.mode = "call"
                                           THEN 1 ELSE 0)]
    /\ UNCHANGED <<s, tie, term, result, prev>>

OfSeq == At("Of") /\ Do(OfStep(ctl.at, Cur, fr[ctl.at], ctl))

EmptySeq == At("Empty") /\ Do(EmptyStep(ctl.at, Cur, fr[ctl.at], ctl))

\* an unbounded generator is followed for at most MaxEmit elements
RepeatSeq ==
    /\ At("Repeat")
    /\ RepeatStep(ctl.at, Cur, fr[ctl.at], ctl).f.out <= MaxEmit
    /\ Do(RepeatStep(ctl.at, Cur, fr[ctl.at], ctl))

IterateSeq ==
    /\ At("Iterate")
    /\ IterateStep(ctl.at, Cur, fr[ctl.at], ctl).f.out <= MaxEmit
    /\ Do(IterateStep(ctl.at, Cur, fr[ctl.at], ctl))

FilterSeq == At("Filter") /\ Do(FilterStep(ctl.at, Cur, fr[ctl.at], ctl))

SortSeq == At("Sort") /\ Do(SortStep(ctl.at, Cur, fr[ctl.at], ctl, tie))

ReverseSeq == At("Reverse") /\ Do(ReverseStep(ctl.at, Cur, fr[ctl.at], ctl))

TakeSeq == At("Take") /\ Do(TakeStep(ctl.at, Cur, fr[ctl.at], ctl))

TakeLastSeq == At("TakeLast") /\ Do(TakeLastStep(ctl.at, Cur, fr[ctl.at], ctl))

SkipSeq == At("Skip") /\ Do(SkipStep(ctl.at, Cur, fr[ctl.at], ctl))

TakeWhileSeq == At("TakeWhile") /\ Do(TakeWhileStep(ctl.at, Cur, fr[ctl.at], ctl))

DropWhileSeq == At("DropWhile") /\ Do(DropWhileStep(ctl.at, Cur, fr[ctl.at], ctl))

DistinctSeq == At("Distinct") /\ Do(DistinctStep(ctl.at, Cur, fr[ctl.at], ctl))

ShuffleSeq ==
    /\ At("Shuffle")
    /\ \E shuffled \in (IF ctl.mode = "done" THEN Perms(fr[ctl.at].buf) ELSE {<<>>}) :
          Do(ShuffleStep(ctl.at, Cur, fr[ctl.at], ctl, shuffled))

PeekSeq == At("Peek") /\ Do(PeekStep(ctl.at, Cur, fr[ctl.at], ctl))

ChainSeq == At("Chain") /\ Do(ChainStep(ctl.at, Cur, fr[ctl.at], ctl))

MapSeq == At("Map") /\ Do(MapStep(ctl.at, Cur, fr[ctl.at], ctl))

MapIndexedSeq == At("MapIndexed") /\ Do(MapIndexedStep(ctl.at, Cur, fr[ctl.at], ctl))

FlatMapSeq == At("FlatMap") /\ Do(FlatMapStep(ctl.at, Cur, fr[ctl.at], ctl))

FlattenSeq == At("Flatten") /\ Do(FlattenStep(ctl.at, Cur, fr[ctl.at], ctl))

ZipSeq == At("Zip") /\ Do(ZipStep(ctl.at, Cur, fr[ctl.at], ctl))

EnumerateSeq == At("Enumerate") /\ Do(EnumerateStep(ctl.at, Cur, fr[ctl.at], ctl))

\* ------------------------------------------------------ terminal operations
NoTerm == [op |-> "none", arg |-> 0, st |-> "none"]
NoPrev == [has |-> FALSE, res |-> <<>>]
\* calls: caller-supplied functions invoked in this drive; delivered: elements
\* handed to the terminal operation; stopped: it has returned false; drives:
\* the times s.seq has been called by a terminal operation; probes: calls of a Peek closure since s
\* was constructed; ops: operators applied; via: the eager operator or the
\* constructor s came from; given: the slice the caller gave to the
\* constructor, as it was at the call; items: that slice as it is now; shared:
\* the Stream reads the caller's backing array; writes: the caller's writes to
\* items; wrote: the drives started when it last wrote
NoObs ==
    [calls |-> 0, delivered |-> 0, stopped |-> FALSE, drives |-> 0, probes |-> 0,
     ops |-> 0, via |-> "none", given |-> <<>>, items |-> <<>>, shared |-> FALSE,
     writes |-> 0, wrote |-> 0]

\* a terminal operation is called on s: `for v := range s.seq` calls s.seq
StartDrive(op, arg) ==
    /\ ctl.who = "idle"
    /\ s # NoStream
    /\ obs.drives < MaxDrives
    /\ term' = [op |-> op, arg |-> arg, st |-> "run"]
    /\ ctl' = NodeCtl(<<>>, "call", 0, 0, TRUE)
    /\ fr' = [p \in DOMAIN fr |-> [fr[p] EXCEPT !.act = 0]]
    /\ obs' = [obs EXCEPT !.drives = @ + 1, !.calls = 0, !.delivered = 0, !.stopped = FALSE]
    /\ prev' = IF term.op = "ToSlice" THEN [has |-> TRUE, res |-> result] ELSE prev
    /\ UNCHANGED <<s, tie>>

InTerm(op, mode) == term.op = op /\ term.st = "run" /\ ctl.who = "term" /\ ctl.mode = mode

\* the loop body of the terminal operation returns ok to the yield of s.seq
Consume(ok) ==
    /\ ctl' = NodeCtl(<<>>, "ret", 0, 0, ok)
    /\ UNCHANGED <<s, tie, fr, term, prev>>

Observe(ok, n) ==
    obs' = [obs EXCEPT !.delivered = @ + 1, !.calls = @ + n,
                       !.stopped = @ \/ ~ok]

\* s.seq has returned and so does the terminal operation
Finish ==
    /\ term' = [term EXCEPT !.st = "done"]
    /\ ctl' = IdleCtl
    /\ UNCHANGED <<s, tie, fr, prev, obs>>

ToSlice ==
    \/ StartDrive("ToSlice", 0) /\ result' = <<>>
    \/ InTerm("ToSlice", "item") /\ result' = Append(result, ctl.val)
          /\ Consume(TRUE) /\ Observe(TRUE, 0)
    \/ InTerm("ToSlice", "done") /\ Finish /\ UNCHANGED result

\* n := 0; for range s.seq { n++ }; return n
Count ==
    \/ StartDrive("Count", 0) /\ result' = 0
    \/ InTerm("Count", "item") /\ result' = result + 1
          /\ Consume(TRUE) /\ Observe(TRUE, 0)
    \/ InTerm("Count", "done") /\ Finish /\ UNCHANGED result

NotFound == [v |-> 0, ok |-> FALSE]
Found(v) == [v |-> v, ok |-> TRUE]

First ==
    \/ obs.drives = 0 /\ StartDrive("First", 0) /\ result' = NotFound
    \/ InTerm("First", "item") /\ result' = Found(ctl.val)
          /\ Consume(FALSE) /\ Observe(FALSE, 0)
    \/ InTerm("First", "done") /\ Finish /\ UNCHANGED result

\* a variant of Find that goes through all of s and keeps the first match
FindThrough ==
    \/ \E predicate \in Preds :
          s.ty = "int" /\ obs.drives = 0 /\ StartDrive("Find", predicate) /\ result' = NotFound
    \/ InTerm("Find", "item")
          /\ result' = (IF ~result.ok /\ Pred(term.arg, ctl.val) THEN Found(ctl.val) ELSE result)
          /\ Consume(TRUE) /\ Observe(TRUE, 1)
    \/ InTerm("Find", "done") /\ Finish /\ UNCHANGED result

\* for v := range s.seq { if predicate(v) { return v, true } }
Find ==
    \/ \E predicate \in Preds :
          s.ty = "int" /\ obs.drives = 0 /\ StartDrive("Find", predicate) /\ result' = NotFound
    \/ InTerm("Find", "item")
          /\ result' = (IF Pred(term.arg, ctl.val) THEN Found(ctl.val) ELSE result)
          /\ Consume(~Pred(term.arg, ctl.val))
          /\ Observe(~Pred(term.arg, ctl.val), 1)
    \/ InTerm("Find", "done") /\ Finish /\ UNCHANGED result

\* a variant of Partition that returns the unmatched elements first
PartitionSwapped ==
    \/ \E predicate \in Preds :
          /\ s.ty = "int" /\ obs.drives = 0
          /\ StartDrive("Partition", predicate) /\ result' = <<<<>>, <<>>>>
    \/ InTerm("Partition", "item")
          /\ result' = (IF Pred(term.arg, ctl.val)
                        THEN <<Append(result[1], ctl.val), result[2]>>
                        ELSE <<result[1], Append(result[2], ctl.val)>>)
          /\ Consume(TRUE) /\ Observe(TRUE, 1)
    \/ InTerm("Partition", "done") /\ Finish
          /\ result' = <<From(result[2]), From(result[1])>>

\* a variant of Last that never sets found
LastUnflagged ==
    \/ StartDrive("Last", 0) /\ result' = NotFound
    \/ InTerm("Last", "item") /\ result' = [result EXCEPT !.v = ctl.val]
          /\ Consume(TRUE) /\ Observe(TRUE, 0)
    \/ InTerm("Last", "done") /\ Finish /\ UNCHANGED result

\* var last T; found := false; for v := range s.seq { last = v; found = true }
Last ==
    \/ StartDrive("Last", 0) /\ result' = NotFound
    \/ InTerm("Last", "item") /\ result' = Found(ctl.val)
          /\ Consume(TRUE) /\ Observe(TRUE, 0)
    \/ InTerm("Last", "done") /\ Finish /\ UNCHANGED result

\* for v := range s.seq { if predicate(v) { return true } }; return false
Any ==
    \/ \E predicate \in Preds : StartDrive("Any", predicate) /\ result' = FALSE
    \/ InTerm("Any", "item") /\ result' = Pred(term.arg, ctl.val)
          /\ Consume(~Pred(term.arg, ctl.val))
          /\ Observe(~Pred(term.arg, ctl.val), 1)
    \/ InTerm("Any", "done") /\ Finish /\ UNCHANGED result

\* for v := range s.seq { if !predicate(v) { return false } }; return true
All ==
    \/ \E predicate \in Preds : StartDrive("All", predicate) /\ result' = TRUE
    \/ InTerm("All", "item") /\ result' = Pred(term.arg, ctl.val)
          /\ Consume(Pred(term.arg, ctl.val))
          /\ Observe(Pred(term.arg, ctl.val), 1)
    \/ InTerm("All", "done") /\ Finish /\ UNCHANGED result

\* for range s.seq { return false }; return true
IsEmpty ==
    \/ StartDrive("IsEmpty", 0) /\ result' = TRUE
    \/ InTerm("IsEmpty", "item") /\ result' = FALSE
          /\ Consume(FALSE) /\ Observe(FALSE, 0)
    \/ InTerm("IsEmpty", "done") /\ Finish /\ UNCHANGED result

\* the less of the model: cmp(a, b) < 0
Less(cmp, a, b) == Cmp(cmp, a, b) < 0

\* a variant of MinBy that also replaces the best by an element not less
\* than it unless the best is less than the element
MinByLatest ==
    \/ \E cmp \in Cmps : StartDrive("MinBy", cmp) /\ result' = NotFound
    \/ InTerm("MinBy", "item")
          /\ result' = (IF ~result.ok \/ ~Less(term.arg, result.v, ctl.val)
                        THEN Found(ctl.val) ELSE result)
          /\ Consume(TRUE) /\ Observe(TRUE, IF result.ok THEN 1 ELSE 0)
    \/ InTerm("MinBy", "done") /\ Finish /\ UNCHANGED result

\* for v := range s.seq { if !found || less(v, min) { min = v; found = true } }
MinBy ==
    \/ \E cmp \in Cmps : StartDrive("MinBy", cmp) /\ result' = NotFound
    \/ InTerm("MinBy", "item")
          /\ result' = (IF ~result.ok \/ Less(term.arg, ctl.val, result.v)
                        THEN Found(ctl.val) ELSE result)
          /\ Consume(TRUE) /\ Observe(TRUE, IF result.ok THEN 1 ELSE 0)
    \/ InTerm("MinBy", "done") /\ Finish /\ UNCHANGED result

\* for v := range s.seq { if !found || less(max, v) { max = v; found = true } }
MaxBy ==
    \/ \E cmp \in Cmps : StartDrive("MaxBy", cmp) /\ result' = NotFound
    \/ InTerm("MaxBy", "item")
          /\ result' = (IF ~result.ok \/ Less(term.arg, result.v, ctl.val)
                        THEN Found(ctl.val) ELSE result)
          /\ Consume(TRUE) /\ Observe(TRUE, IF result.ok THEN 1 ELSE 0)
    \/ InTerm("MaxBy", "done") /\ Finish /\ UNCHANGED result

\* numeric.go: (zero, false) when s holds nothing; else min := the first
\* element and, for each later v, if v < min { min = v }
Min ==
    \/ s.ty = "int" /\ StartDrive("Min", 0) /\ result' = NotFound
    \/ InTerm("Min", "item")
          /\ result' = (IF ~result.ok \/ ctl.val < result.v THEN Found(ctl.val) ELSE result)
          /\ Consume(TRUE) /\ Observe(TRUE, 0)
    \/ InTerm("Min", "done") /\ Finish /\ UNCHANGED result

\* numeric.go: as Min, with if v > max { max = v }
Max ==
    \/ s.ty = "int" /\ StartDrive("Max", 0) /\ result' = NotFound
    \/ InTerm("Max", "item")
          /\ result' = (IF ~result.ok \/ ctl.val > result.v THEN Found(ctl.val) ELSE result)
          /\ Consume(TRUE) /\ Observe(TRUE, 0)
    \/ InTerm("Max", "done") /\ Finish /\ UNCHANGED result

\* a float64 quotient total / n of two integers, n > 0, as a reduced fraction
RECURSIVE Gcd(_, _)
Gcd(a, b) == IF b = 0 THEN a ELSE Gcd(b, a % b)
Abs(a) == IF a < 0 THEN 0 - a ELSE a
Float(total, n) ==
    LET g == Gcd(Abs(total), n)
    IN [num |-> total \div g, den |-> n \div g]

\* numeric.go: var total T; for _, v := range s.data { total += v }; return total
Sum ==
    \/ s.ty = "int" /\ StartDrive("Sum", 0) /\ result' = 0
    \/ InTerm("Sum", "item") /\ result' = result + ctl.val
          /\ Consume(TRUE) /\ Observe(TRUE, 0)
    \/ InTerm("Sum", "done") /\ Finish /\ UNCHANGED result

\* numeric.go: total += fn(v)
SumBy ==
    \/ \E fn \in Fns : s.ty = "int" /\ StartDrive("SumBy", fn) /\ result' = 0
    \/ InTerm("SumBy", "item") /\ result' = result + Fn(term.arg, ctl.val)
          /\ Consume(TRUE) /\ Observe(TRUE, 1)
    \/ InTerm("SumBy", "done") /\ Finish /\ UNCHANGED result

\* numeric.go: if len(s.data) == 0 { return 0 }; total += float64(v) for each
\* v; return total / float64(len(s.data))
Avg ==
    \/ s.ty = "int" /\ StartDrive("Avg", 0) /\ result' = 0
    \/ InTerm("Avg", "item") /\ result' = result + ctl.val
          /\ Consume(TRUE) /\ Observe(TRUE, 0)
    \/ InTerm("Avg", "done") /\ Finish
          /\ result' = IF obs.delivered = 0 THEN Float(0, 1)
                        ELSE Float(result, obs.delivered)

\* numeric.go: as Avg, with total += float64(fn(v))
AvgBy ==
    \/ \E fn \in Fns : s.ty = "int" /\ StartDrive("AvgBy", fn) /\ result' = 0
    \/ InTerm("AvgBy", "item") /\ result' = result + Fn(term.arg, ctl.val)
          /\ Consume(TRUE) /\ Observe(TRUE, 1)
    \/ InTerm("AvgBy", "done") /\ Finish
          /\ result' = IF obs.delivered = 0 THEN Float(0, 1)
                        ELSE Float(result, obs.delivered)

\* Partition runs s.seq to its end when it is called and returns two Streams
\* over the slices it filled: return From(yes), From(no)
Partition ==
    \/ \E predicate \in Preds :
          /\ s.ty = "int" /\ obs.drives = 0
          /\ StartDrive("Partition", predicate) /\ result' = <<<<>>, <<>>>>
    \/ InTerm("Partition", "item")
          /\ result' = (IF Pred(term.arg, ctl.val)
                        THEN <<Append(result[1], ctl.val), result[2]>>
                        ELSE <<result[1], Append(result[2], ctl.val)>>)
          /\ Consume(TRUE) /\ Observe(TRUE, 1)
    \/ InTerm("Partition", "done") /\ Finish
          /\ result' = <<From(result[1]), From(result[2])>>

\* a split that puts each chunk in front of the ones made before it
RECURSIVE ChunksBackward(_, _, _)
ChunksBackward(buf, size, i) ==
    IF i >= Len(buf) THEN <<>>
    ELSE ChunksBackward(buf, size, i + size)
            \o <<Of(SubSeq(buf, i + 1, Min2(i + size, Len(buf))))>>

\* a split that leaves out a last chunk shorter than size
RECURSIVE ChunksWhole(_, _, _)
ChunksWhole(buf, size, i) ==
    IF i + size > Len(buf) THEN <<>>
    ELSE <<Of(SubSeq(buf, i + 1, i + size))>> \o ChunksWhole(buf, size, i + size)

\* for i := 0; i < len(buf); i += size { ...; chunks = append(chunks, Of(chunk...)) }
RECURSIVE Chunks(_, _, _)
Chunks(buf, size, i) ==
    IF i >= Len(buf) THEN <<>>
    ELSE <<Of(SubSeq(buf, i + 1, Min2(i + size, Len(buf))))>> \o Chunks(buf, size, i + size)

\* Chunk returns nil for size <= 0 and otherwise runs s.seq to its end when it
\* is called and returns Streams over copies of the pieces of its buffer
Chunk ==
    \/ \E size \in 1..MaxN :
          /\ s.ty = "int" /\ obs.drives = 0
          /\ StartDrive("Chunk", size) /\ result' = <<>>
    \/ \E size \in (-1)..0 :
          /\ ctl.who = "idle" /\ s # NoStream /\ s.ty = "int"
          /\ obs.drives = 0 /\ term.st = "none"
          /\ term' = [op |-> "Chunk", arg |-> size, st |-> "done"]
          /\ result' = <<>>
          /\ UNCHANGED <<s, tie, fr, ctl, prev, obs>>
    \/ InTerm("Chunk", "item") /\ result' = Append(result, ctl.val)
          /\ Consume(TRUE) /\ Observe(TRUE, 0)
    \/ InTerm("Chunk", "done") /\ Finish
          /\ result' = Chunks(result, term.arg, 0)

\* the caller goes on with one of the Streams that Partition or Chunk returned
Adopt ==
    /\ ctl.who = "idle"
    /\ term.st = "done" /\ term.op \in {"Partition", "Chunk"}
    /\ \E k \in DOMAIN result :
          /\ s' = result[k]
          /\ fr' = [p \in Paths(result[k]) |-> Idle]
    /\ term' = NoTerm
    /\ result' = <<>>
    /\ prev' = NoPrev
    /\ obs' = [obs EXCEPT !.drives = 0, !.via = term.op]
    /\ UNCHANGED <<tie, ctl>>

\* ------------------------------------------------------------ construction
RECURSIVE SeqsUpTo(_, _)
SeqsUpTo(S, n) ==
    IF n = 0 THEN {<<>>}
    ELSE SeqsUpTo(S, n - 1)
         \cup {Append(q, x) : q \in {r \in SeqsUpTo(S, n - 1) : Len(r) = n - 1}, x \in S}

Vals == 1..MaxVal
Items == SeqsUpTo(Vals, MaxLen)
Counts == (-1)..MaxN

\* 1, 2, ..., MaxVal, 1, 2, ...: the first k of them
Prefix(k) == [j \in 1..k |-> ((j - 1) % MaxVal) + 1]
Prefixes == {Prefix(k) : k \in 0..MaxLen}

\* a variant in which constructing a Stream runs its seq
ConstructedEager == NodeCtl(<<>>, "call", 0, 0, TRUE)

\* constructing a Stream only builds a closure: nothing runs
Constructed == IdleCtl

Construct(st) ==
    /\ ctl.who = "idle"
    /\ term.st = "none"
    /\ obs.ops < MaxOps
    /\ s' = st
    /\ fr' = [p \in Paths(st) |-> Idle]
    /\ ctl' = Constructed
    /\ obs' = [obs EXCEPT !.ops = @ + 1]
    /\ UNCHANGED <<tie, term, result, prev>>

\* a slice handed on as it is: items... passes the caller's slice unchanged
\* as the variadic parameter, which shares its backing array
Spread(items) == [elems |-> items, shared |-> TRUE]

\* a variant of From that hands its argument on without copying it
CopiedNot(items) == [elems |-> items, shared |-> TRUE]

\* copied := make([]T, len(items)); copy(copied, items)
Copied(items) == [elems |-> items, shared |-> FALSE]

\* a constructor called on a slice of the caller
SourceOn(items, slice, via) ==
    /\ s = NoStream
    /\ s' = Of(slice.elems)
    /\ fr' = [p \in Paths(s') |-> Idle]
    /\ ctl' = Constructed
    /\ obs' = [obs EXCEPT !.given = items, !.items = items,
                           !.shared = slice.shared, !.via = via]
    /\ UNCHANGED <<tie, term, result, prev>>

\* From(items): the Stream of the copy
CallFrom == \E k \in 0..MaxLen : SourceOn(Prefix(k), Copied(Prefix(k)), "From")

\* Of(items...): the Stream of the caller's slice
CallOfSpread == \E k \in 0..MaxLen : SourceOn(Prefix(k), Spread(Prefix(k)), "Of")

\* the caller writes items[k] = v after the constructor has returned; a Stream
\* that shares the backing array reads the new element from then on
Mutate ==
    /\ s.op = "Of"
    /\ obs.via \in {"From", "Of"}
    /\ obs.writes < MaxWrites
    /\ \E k \in 1..Len(obs.items), v \in Vals :
           /\ v # obs.items[k]
           /\ obs' = [obs EXCEPT !.items[k] = v, !.writes = @ + 1, !.wrote = obs.drives]
           /\ s' = IF obs.shared THEN [s EXCEPT !.arg[k] = v] ELSE s
    /\ UNCHANGED <<fr, ctl, tie, term, result, prev>>

\* a constructor: nothing is built yet
Source(st) ==
    /\ s = NoStream
    /\ s' = st
    /\ fr' = [p \in Paths(st) |-> Idle]
    /\ ctl' = Constructed
    /\ UNCHANGED <<tie, term, result, prev, obs>>

Grow == s # NoStream
GrowInt == Grow /\ s.ty = "int"

Slices == OfTyped(<<<<1, 2>>, <<>>, <<2>>>>, "slice")

CallOf == \E items \in Prefixes : Source(Of(items))
CallOfSlices == Source(Slices)
CallRepeat == Source(Repeat(1))
CallNaturals == Source(Naturals)

Others(st) ==
    {st} \cup (IF st.ty = "int" THEN {Of(<<1, 2>>)} ELSE {})

CallFilter == GrowInt /\ Construct(Filter(s, "even"))
CallReject == GrowInt /\ Construct(Reject(s, "even"))
CallSort == GrowInt /\ Construct(Sort(s, "half"))
CallReverse == Grow /\ Construct(Reverse(s))
CallTake == Grow /\ \E n \in Counts : Construct(Take(s, n))
CallTakeLast == Grow /\ \E n \in Counts : Construct(TakeLast(s, n))
CallSkip == Grow /\ \E n \in Counts : Construct(Skip(s, n))
CallTakeWhile == GrowInt /\ Construct(TakeWhile(s, "lt2"))
CallDropWhile == GrowInt /\ Construct(DropWhile(s, "lt2"))
CallDistinct == GrowInt /\ Construct(Distinct(s, "parity"))
CallShuffle == Grow /\ Construct(Shuffle(s))
CallPeek == Grow /\ Construct(Peek(s))
CallChain ==
    Grow /\ \E others \in {<<o>> : o \in Others(s)} \cup {<<Of(<<>>), s>>} :
                Construct(Chain(s, others))
CallMap == GrowInt /\ Construct(Map(s, "inc"))
CallMapIndexed == GrowInt /\ Construct(MapIndexed(s))
CallFlatMap == GrowInt /\ Construct(FlatMap(s))
CallZip ==
    Grow /\ \/ \E o \in Others(s) \cup {Naturals} : Construct(Zip(s, o))
            \/ Construct(Zip(Naturals, s))
CallFlatten == Grow /\ s.ty = "slice" /\ Construct(Flatten(s))
CallEnumerate == Grow /\ Construct(Enumerate(s))

Build ==
    \/ CallOf \/ CallOfSlices \/ CallRepeat \/ CallNaturals
    \/ CallFilter \/ CallReject \/ CallSort \/ CallReverse \/ CallTake
    \/ CallTakeLast \/ CallSkip \/ CallTakeWhile \/ CallDropWhile
    \/ CallDistinct \/ CallShuffle \/ CallPeek \/ CallChain \/ CallMap
    \/ CallMapIndexed \/ CallFlatMap \/ CallZip \/ CallFlatten \/ CallEnumerate

Drive ==
    \/ OfSeq \/ EmptySeq \/ RepeatSeq \/ IterateSeq \/ FilterSeq \/ SortSeq
    \/ ReverseSeq \/ TakeSeq \/ TakeLastSeq \/ SkipSeq \/ TakeWhileSeq
    \/ DropWhileSeq \/ DistinctSeq \/ ShuffleSeq \/ PeekSeq \/ ChainSeq
    \/ MapSeq \/ MapIndexedSeq \/ FlatMapSeq \/ FlattenSeq \/ ZipSeq
    \/ EnumerateSeq

Init ==
    /\ s = NoStream
    /\ tie \in {"keep", "swap"}
    /\ fr = [p \in {<<>>} |-> Idle]
    /\ ctl = IdleCtl
    /\ term = NoTerm
    /\ result = <<>>
    /\ prev = NoPrev
    /\ obs = NoObs

Next == Build \/ Drive \/ ToSlice \/ First

Spec == Init /\ [][Next]_vars

\* ------------------------------------------------- Take over a counted source
\* a source, bare or under a Peek that counts what the source produces
Generators == {Repeat(v) : v \in Vals} \cup {Iterate(seed, fn) : seed \in 0..1, fn \in Fns}
TakeSources ==
    LET plain == {Of(items) : items \in Prefixes} \cup Generators
    IN plain \cup {Peek(u) : u \in plain}
TakeStreams == {Take(u, n) : u \in TakeSources, n \in Counts}

InitOn(streams) ==
    /\ s \in streams
    /\ tie \in {"keep", "swap"}
    /\ fr = [p \in Paths(s) |-> Idle]
    /\ ctl = IdleCtl
    /\ term = NoTerm
    /\ result = <<>>
    /\ prev = NoPrev
    /\ obs = NoObs

InitTake == InitOn(TakeStreams)

NextTake ==
    \/ OfSeq \/ EmptySeq \/ RepeatSeq \/ IterateSeq \/ PeekSeq \/ TakeSeq
    \/ ToSlice \/ First

SpecTake == InitTake /\ [][NextTake]_vars

\* the code of a drive runs on: a step that can be taken is taken
FairTake == SpecTake /\ WF_vars(NextTake)

\* ----------------------------------------------------------- Zip of two sources
ZipStreams ==
    {Zip(a, b) : a \in {Of(Prefix(k)) : k \in 0..MaxLen} \cup {Naturals},
                 b \in {Of(items) : items \in Items} \cup {Naturals}}

InitZip == InitOn(ZipStreams)

NextZip == OfSeq \/ IterateSeq \/ ZipSeq \/ ToSlice \/ First

SpecZip == InitZip /\ [][NextZip]_vars

\* ------------------------------------- buffering operators over a counted source
Probed == {Peek(Of(items)) : items \in Items}
BufferStreams ==
    Probed
    \cup {Sort(u, cmp) : u \in Probed, cmp \in Cmps}
    \cup {Reverse(u) : u \in Probed}
    \cup {Shuffle(u) : u \in Probed}
    \cup {TakeLast(u, n) : u \in Probed, n \in Counts}

InitBuffer == InitOn(BufferStreams)

NextBuffer ==
    \/ OfSeq \/ EmptySeq \/ PeekSeq \/ SortSeq \/ ReverseSeq \/ ShuffleSeq \/ TakeLastSeq
    \/ ToSlice \/ First \/ Partition \/ Chunk \/ Adopt

SpecBuffer == InitBuffer /\ [][NextBuffer]_vars

\* ------------------------------------------------------------ Sort of a slice
SortStreams ==
    {Sort(Of(items), cmp) : items \in Items, cmp \in Cmps}
    \cup {Sort(Distinct(Of(items), "self"), cmp) : items \in Items, cmp \in Cmps}

InitSort == InitOn(SortStreams)

NextSort == OfSeq \/ DistinctSeq \/ SortSeq \/ ToSlice

SpecSort == InitSort /\ [][NextSort]_vars

\* ------------------------------------------------------------ Chunk of a finite Stream
ChunkStreams ==
    {Of(items) : items \in Items}
    \cup {Filter(Of(items), predicate) : items \in Items, predicate \in Preds}
    \cup {Take(Naturals, n) : n \in 1..MaxN}

InitChunk == InitOn(ChunkStreams)

NextChunk == OfSeq \/ FilterSeq \/ IterateSeq \/ TakeSeq \/ Chunk \/ ToSlice

SpecChunk == InitChunk /\ [][NextChunk]_vars

\* ------------------------------------------------------------ Filter, and Take of a Filter
FilterSources ==
    {Of(items) : items \in Items} \cup {Map(Of(items), "inc") : items \in Items}

FilterStreams ==
    FilterSources
    \cup {Filter(u, predicate) : u \in FilterSources, predicate \in Preds}
    \cup {Take(Filter(u, predicate), n) :
              u \in {Of(items) : items \in Items} \cup {Naturals},
              predicate \in Preds, n \in 1..MaxN}

InitFilter == InitOn(FilterStreams)

NextFilter ==
    \/ OfSeq \/ IterateSeq \/ MapSeq \/ FilterSeq \/ TakeSeq
    \/ ToSlice \/ Count \/ First

SpecFilter == InitFilter /\ [][NextFilter]_vars

\* ------------------------------------------------------------ Chain of slices
ChainMembers == {Of(items) : items \in Prefixes}

Chains ==
    {Chain(m, <<o1>>) : m \in ChainMembers, o1 \in ChainMembers}
    \cup {Chain(m, <<o1, o2>>) : m \in ChainMembers, o1 \in ChainMembers, o2 \in ChainMembers}

ChainStreams == Chains \cup {Take(c, n) : c \in Chains, n \in 1..MaxN}

InitChain == InitOn(ChainStreams)

NextChain == OfSeq \/ ChainSeq \/ TakeSeq \/ ToSlice \/ First

SpecChain == InitChain /\ [][NextChain]_vars

\* ------------------------------------------------------------ operators over a slice
Keys == {"self", "parity"}

SliceStreams ==
    {TakeWhile(u, predicate) :
        u \in {Of(items) : items \in Items} \cup {Naturals}, predicate \in Preds}
    \cup {DropWhile(Of(items), predicate) : items \in Items, predicate \in Preds}
    \cup {Distinct(Of(items), key) : items \in Items, key \in Keys}
    \cup {TakeLast(Of(items), n) : items \in Items, n \in 1..MaxN}

InitSlice == InitOn(SliceStreams)

NextSlice ==
    \/ OfSeq \/ IterateSeq \/ TakeWhileSeq \/ DropWhileSeq \/ DistinctSeq \/ TakeLastSeq
    \/ ToSlice \/ First

SpecSlice == InitSlice /\ [][NextSlice]_vars

\* ------------------------------------------------------------ Take and TakeLast of any count
CountedSources ==
    {Peek(Filter(Of(items), "even")) : items \in Items}
    \cup {Map(Of(items), "inc") : items \in Items}

CountedStreams ==
    {Take(u, n) : u \in CountedSources, n \in Counts}
    \cup {TakeLast(u, n) : u \in CountedSources, n \in Counts}

InitCounted == InitOn(CountedStreams)

NextCounted ==
    \/ OfSeq \/ EmptySeq \/ FilterSeq \/ MapSeq \/ PeekSeq \/ TakeSeq \/ TakeLastSeq
    \/ ToSlice \/ First \/ Count

SpecCounted == InitCounted /\ [][NextCounted]_vars

\* ------------------------------------------------------------ Skip of a slice
\* Skip(n) of a slice under a Peek; for n <= 0 Skip returns the Stream of the
\* slice itself
SkipStreams == {Peek(Skip(Of(items), n)) : items \in Items, n \in Counts}

InitSkip == InitOn(SkipStreams)

NextSkip == OfSeq \/ SkipSeq \/ PeekSeq \/ ToSlice \/ First

SpecSkip == InitSkip /\ [][NextSkip]_vars

\* ------------------------------------------------------------ Partition
InitPartition == InitOn(FilterSources)

NextPartition == OfSeq \/ MapSeq \/ Partition \/ Adopt \/ ToSlice

SpecPartition == InitPartition /\ [][NextPartition]_vars

\* ------------------------------------------------------------ terminal operations that find
FindStreams == {Of(items) : items \in Items} \cup {Naturals}

InitFind == InitOn(FindStreams)

NextFind ==
    \/ OfSeq \/ IterateSeq
    \/ First \/ Last \/ Find \/ Any \/ All \/ IsEmpty \/ MinBy \/ MaxBy \/ Min \/ Max

SpecFind == InitFind /\ [][NextFind]_vars

\* ------------------------------------------------------------ numeric summaries
Numbers == (-1)..1
NumberStreams == {Of(items) : items \in SeqsUpTo(Numbers, MaxN)}

InitNumber == InitOn(NumberStreams)

NextNumber == OfSeq \/ Sum \/ SumBy \/ Avg \/ AvgBy

SpecNumber == InitNumber /\ [][NextNumber]_vars

\* From and Of on a slice the caller goes on writing to
NextFrom == CallFrom \/ CallOfSpread \/ Mutate \/ OfSeq \/ ToSlice \/ First
SpecFrom == Init /\ [][NextFrom]_vars

\* ------------------------------------------------------------ Sort of a Sort
SortTwiceStreams ==
    {Sort(Of(items), cmp) : items \in Items, cmp \in Cmps}
    \cup {Sort(Sort(Of(items), cmp), cmp) : items \in Items, cmp \in Cmps}

InitSortTwice == InitOn(SortTwiceStreams)

NextSortTwice == OfSeq \/ SortSeq \/ ToSlice

SpecSortTwice == InitSortTwice /\ [][NextSortTwice]_vars

\* ------------------------------------------------------------- properties
IsPrefix(p, q) == Len(p) <= Len(q) /\ SubSeq(q, 1, Len(p)) = p

\* the closure at q neither yields nor is called in this step
Quiet(q) == fr'[q].out = fr[q].out /\ fr'[q].act = fr[q].act

\* the closure at p has executed `return` or has returned
Halted(p) == fr[p].exit \/ fr[p].pc = "done"

\* C1: in a drive of any composition of operators, once the consumer has
\* returned stop it is not invoked again and no producer yields or is called
\* again; the same holds under every operator that has stopped its source:
\* nothing below it yields or is called until that operator is called again.
StopIsFinal ==
    [][(s' = s /\ obs'.drives = obs.drives) =>
          /\ obs.stopped =>
                /\ obs'.delivered = obs.delivered
                /\ \A q \in DOMAIN fr : Quiet(q)
          /\ \A p \in DOMAIN fr :
                (Halted(p) /\ fr'[p].act = fr[p].act) =>
                    \A q \in DOMAIN fr : IsPrefix(p, q) => Quiet(q)]_vars

\* a First on a Chain stopped inside the first member: the second member
\* was never driven
StopIsFinalWitness ==
    /\ term.op = "First" /\ term.st = "done" /\ obs.stopped
    /\ s.op = "Chain" /\ Len(s.kids) = 2
    /\ fr[<<1>>].out = 1 /\ fr[<<2>>].act = 0

\* C2: for a Stream without Shuffle, a second ToSlice returns what the first
\* returned: every drive starts from fresh counters, flags, seen-sets, indices
\* and pull adapter.
Replay ==
    (term.op = "ToSlice" /\ term.st = "done" /\ prev.has /\ ~HasOp(s, "Shuffle"))
        => result = prev.res

\* the second ToSlice of a Take over a Distinct has returned two elements
ReplayWitness ==
    /\ term.op = "ToSlice" /\ term.st = "done" /\ prev.has
    /\ s.op = "Take" /\ s.kids[1].op = "Distinct"
    /\ Len(result) = 2 /\ obs.drives = 2

\* C3: until a terminal operation is called, building a pipeline runs
\* nothing: no closure has been called, no element produced and no
\* caller-supplied function invoked.
NoWorkBeforeTerminal ==
    term.st = "none" =>
        /\ ctl.who = "idle"
        /\ obs.calls = 0 /\ obs.probes = 0 /\ obs.delivered = 0
        /\ \A p \in DOMAIN fr : fr[p] = Idle

\* a Sort over a Peek has been built and no terminal operation called
NoWorkBeforeTerminalWitness ==
    /\ term.st = "none" /\ obs.ops = MaxOps
    /\ s.op = "Sort" /\ s.kids[1].op = "Peek" /\ s.kids[1].kids[1].op = "Of"
    /\ Len(s.kids[1].kids[1].arg) = MaxLen

\* the source at the bottom of a pipeline of one-source operators
RECURSIVE Leaf(_)
Leaf(st) == IF st.kids = <<>> THEN st ELSE Leaf(st.kids[1])

RECURSIVE LeafPath(_)
LeafPath(st) == IF st.kids = <<>> THEN <<>> ELSE <<1>> \o LeafPath(st.kids[1])

Unbounded(st) == st.op \in {"Repeat", "Iterate"}

\* what Take(n), n > 0, lets through of the source st
TakeLen(st, n) == IF Unbounded(st) THEN n ELSE Min2(n, Len(st.arg))

\* C4: under s.Take(n), n > 0, s yields at most n elements, a Peek counter on
\* s never exceeds n and the source below it is never asked for element n + 1;
\* a completed ToSlice has exactly min(n, length of s) elements, and s has
\* produced exactly that many.
TakeBound ==
    \A p \in DOMAIN fr :
        NodeAt(s, p).op = "Take" =>
            LET n == NodeAt(s, p).arg
                kid == NodeAt(s, p \o <<1>>)
                src == p \o <<1>> \o LeafPath(kid)
            IN /\ n > 0
               /\ fr[p].out <= n
               /\ fr[p \o <<1>>].out <= n
               /\ fr[src].out <= n
               /\ kid.op = "Peek" => fr[p \o <<1>>].i <= n
               /\ (term.op = "ToSlice" /\ term.st = "done") =>
                     /\ Len(result) = TakeLen(Leaf(kid), n)
                     /\ fr[src].out = TakeLen(Leaf(kid), n)
                     /\ kid.op = "Peek" => fr[p \o <<1>>].i = TakeLen(Leaf(kid), n)

\* Take(MaxN) over a counted Iterate has been collected: MaxN elements, and
\* the counter stands at MaxN
TakeBoundWitness ==
    /\ term.op = "ToSlice" /\ term.st = "done"
    /\ s.op = "Take" /\ s.arg = MaxN /\ s.kids[1].op = "Peek"
    /\ s.kids[1].kids[1].op = "Iterate"
    /\ Len(result) = MaxN /\ fr[<<1>>].i = MaxN

\* the number of elements Take(n) was built to let through
Wanted == IF s.op = "Take" THEN Max2(s.arg, 0) ELSE 0

\* C5: for an unbounded generator g and any integer n, g.Take(n).ToSlice()
\* returns, with exactly max(n, 0) elements; the loop of a generator ends
\* only when its yield has returned false.
GeneratorTakeTerminates ==
    /\ (term.op = "ToSlice" /\ term.st = "run" /\ (s.op = "Empty" \/ Unbounded(Leaf(s))))
          ~> (term.op = "ToSlice" /\ term.st = "done" /\ Len(result) = Wanted)
    /\ [][\A p \in DOMAIN fr :
             (s' = s /\ Unbounded(NodeAt(s, p)) /\ fr'[p].pc = "done" /\ fr[p].pc # "done")
                 => (ctl.who = "node" /\ ctl.at = p /\ ctl.mode = "ret" /\ ~ctl.ok)]_vars

\* Take(MaxN) of a Repeat has been collected: MaxN elements and the
\* generator has returned
GeneratorTakeWitness ==
    /\ term.op = "ToSlice" /\ term.st = "done"
    /\ s.op = "Take" /\ s.arg = MaxN /\ s.kids[1].op = "Repeat"
    /\ Len(result) = MaxN /\ fr[<<1>>].pc = "done"

\* C6: Zip(a, b).ToSlice() has min(length of a, length of b) pairs and its
\* i-th pair is (a_i, b_i); Naturals has no end and its i-th element is i - 1.
ZipShorterWins ==
    (term.op = "ToSlice" /\ term.st = "done" /\ s.op = "Zip") =>
        LET a == s.kids[1]
            b == s.kids[2]
        IN /\ (a.op = "Of" /\ b.op = "Of") =>
                  result = [i \in 1..Min2(Len(a.arg), Len(b.arg)) |-> <<a.arg[i], b.arg[i]>>]
           /\ (a.op = "Of" /\ b.op = "Iterate") =>
                  result = [i \in 1..Len(a.arg) |-> <<a.arg[i], i - 1>>]
           /\ (a.op = "Iterate" /\ b.op = "Of") =>
                  result = [i \in 1..Len(b.arg) |-> <<i - 1, b.arg[i]>>]

\* a Zip of MaxLen elements with fewer has been collected
ZipShorterWinsWitness ==
    /\ term.op = "ToSlice" /\ term.st = "done" /\ s.op = "Zip"
    /\ s.kids[1].op = "Of" /\ s.kids[2].op = "Of"
    /\ Len(s.kids[1].arg) = MaxLen /\ Len(s.kids[2].arg) = MaxLen - 1
    /\ Len(result) = MaxLen - 1

\* the closures of b under the Zip at p
Second(p) == {q \in DOMAIN fr : IsPrefix(p \o <<2>>, q)}

\* C7: however a drive of Zip(a, b) ends (a exhausted, b exhausted, the
\* consumer stopped), the pull adapter over b has been stopped when the drive
\* returns: no closure of b is left suspended, and none runs again afterwards.
ZipCancels ==
    /\ [](\A p \in DOMAIN fr :
             (NodeAt(s, p).op = "Zip" /\ (fr[p].pc = "done" \/ term.st = "done")) =>
                 /\ fr[p].pull = "done"
                 /\ \A q \in Second(p) : fr[q].pc \in {"idle", "done"})
    /\ [][\A p \in DOMAIN fr :
             (s' = s /\ NodeAt(s, p).op = "Zip" /\ fr[p].pull = "done"
                 /\ fr'[p].act = fr[p].act /\ obs'.drives = obs.drives) =>
                 \A q \in Second(p) : fr'[q] = fr[q]]_vars

\* the consumer stopped a Zip whose b is unbounded: b was suspended and
\* has been made to return
ZipCancelsWitness ==
    /\ term.op = "First" /\ term.st = "done" /\ obs.stopped
    /\ s.op = "Zip" /\ s.kids[2].op = "Iterate"
    /\ fr[<<>>].pull = "done" /\ fr[<<2>>].pc = "done" /\ fr[<<2>>].out = 1

\* the operators that fill a buffer inside their closure
Buffering == {"Sort", "Reverse", "Shuffle", "TakeLast"}

\* C8: in a drive of Sort, Reverse, Shuffle or TakeLast(n), n > 0, the source
\* has been driven once, to its end and without being stopped, before the
\* operator hands on its first element, also when the consumer stops after
\* that first element.
DrainsBeforeEmit ==
    \A p \in DOMAIN fr :
        (NodeAt(s, p).op \in Buffering /\ fr[p].act > 0 /\ fr[p].out > 0) =>
            LET k == p \o <<1>>
                src == k \o LeafPath(NodeAt(s, k))
            IN /\ fr[p].act = 1
               /\ fr[k].act = 1 /\ fr[k].pc = "done" /\ ~fr[k].exit
               /\ fr[src].act = 1 /\ fr[src].pc = "done"
               /\ NodeAt(s, src).op = "Of" => fr[src].out = Len(NodeAt(s, src).arg)

\* First on a Sort of MaxLen elements: one element delivered, MaxLen produced
DrainsBeforeEmitWitness ==
    /\ term.op = "First" /\ term.st = "done" /\ obs.stopped
    /\ s.op = "Sort" /\ fr[<<>>].out = 1
    /\ fr[<<1, 1>>].out = MaxLen /\ fr[<<1>>].i = MaxLen

\* a completed drive of the Stream a buffering operator returned
OutputDriven == ctl.who = "idle" /\ term.st = "done" /\ term.op \in {"ToSlice", "First"}

\* C9 as stated: every buffering operator, Chunk and Partition included,
\* drives its source once per drive of its output (for Chunk and Partition:
\* of a Stream they returned, when they were applied over the counted source).
BufferEveryDrive ==
    (OutputDriven /\ (s.op \in Buffering \/ (obs.via # "none" /\ obs.probes > 0)))
        => obs.probes = obs.drives

\* C9: Sort, Reverse, Shuffle and TakeLast(n), n > 0, fill a fresh buffer in
\* every drive: k drives of the output drive the source k times and the buffer
\* holds what the source produced in this drive; TakeLast(n), n <= 0, never
\* drives its source; Chunk (size > 0) and Partition drive their source once,
\* when they are called, and driving the Streams they return drives it no more.
BufferPerDrive ==
    /\ [](/\ (s.op \in Buffering /\ obs.via = "none") =>
                /\ OutputDriven => obs.probes = obs.drives
                /\ fr[<<>>].pc \in {"emit", "done"} => Len(fr[<<>>].buf) = fr[<<1>>].out
          /\ (s.op = "Empty" /\ obs.via = "none") => obs.probes = 0
          /\ (term.st = "done" /\ term.op \in {"Partition", "Chunk"}
                 /\ HasOp(s, "Peek") /\ obs.via = "none") =>
                obs.probes = (IF term.op = "Chunk" /\ term.arg <= 0 THEN 0 ELSE 1))
    /\ [][obs.via # "none" => obs'.probes = obs.probes]_vars

\* a Stream returned by Partition has been collected twice and the source
\* was driven once
BufferPerDriveWitness ==
    /\ obs.via = "Partition" /\ OutputDriven /\ term.op = "ToSlice"
    /\ obs.drives = 2 /\ obs.probes = 1 /\ Len(result) = MaxLen - 1

\* ------------------------------------------------------------ Sort, stated
RECURSIVE Dedup(_, _)
Dedup(items, seen) ==
    IF items = <<>> THEN <<>>
    ELSE IF Head(items) \in seen THEN Dedup(Tail(items), seen)
         ELSE <<Head(items)>> \o Dedup(Tail(items), seen \cup {Head(items)})

\* what the source of the Sort at the root produces
SortInput == IF s.kids[1].op = "Of" THEN s.kids[1].arg ELSE Dedup(s.kids[1].kids[1].arg, {})

Occurrences(q, v) == Cardinality({k \in DOMAIN q : q[k] = v})

IsPermutation(q, r) ==
    Len(q) = Len(r) /\ \A k \in DOMAIN q : Occurrences(q, q[k]) = Occurrences(r, q[k])

Only(q, x, y) == SelectSeq(q, LAMBDA v : v \in {x, y})

\* elements that compare equal come out in the order they went in
IsStable(input, output, cmp) ==
    \A j, k \in DOMAIN input :
        Cmp(cmp, input[j], input[k]) = 0 =>
            Only(output, input[j], input[k]) = Only(input, input[j], input[k])

\* C10: s.Sort(cmp) yields a permutation of s in non-decreasing cmp order, and
\* the sort is stable.
SortStable ==
    (term.op = "ToSlice" /\ term.st = "done" /\ s.op = "Sort") =>
        /\ IsPermutation(SortInput, result)
        /\ IsSorted(result, s.arg)
        /\ IsStable(SortInput, result, s.arg)

\* C10, the part that holds whatever sort.Slice does with equal elements:
\* s.Sort(cmp) yields a permutation of s in non-decreasing cmp order.
SortOrders ==
    (term.op = "ToSlice" /\ term.st = "done" /\ s.op = "Sort") =>
        /\ IsPermutation(SortInput, result)
        /\ IsSorted(result, s.arg)

\* a Distinct then Sort whose input holds two elements that compare equal
\* ahead of a smaller one has been collected
SortStableWitness ==
    /\ term.op = "ToSlice" /\ term.st = "done"
    /\ s.op = "Sort" /\ s.arg = "half" /\ s.kids[1].op = "Distinct"
    /\ SortInput = <<2, 3, 1>> /\ Len(result) = 3

\* ------------------------------------------------------------ C11
SortedTwice == s.op = "Sort" /\ s.kids[1].op = "Sort" /\ s.kids[1].arg = s.arg

\* two distinct elements of q compare equal under cmp
HasTie(q, cmp) ==
    \E j, k \in DOMAIN q : q[j] # q[k] /\ Cmp(cmp, q[j], q[k]) = 0

\* C11: s.Sort(cmp).Sort(cmp).ToSlice() equals s.Sort(cmp).ToSlice() element
\* for element, also when s holds distinct elements that compare equal: the
\* slice collected from the second Sort is the slice the first Sort emitted,
\* which is the slice collected from s.Sort(cmp) alone.
SortIdempotent ==
    (term.op = "ToSlice" /\ term.st = "done" /\ s.op = "Sort") =>
        /\ s.kids[1].op = "Of" => result = SortSlice(s.kids[1].arg, s.arg, tie)
        /\ SortedTwice =>
              /\ result = fr[<<1>>].buf
              /\ result = SortSlice(s.kids[1].kids[1].arg, s.arg, tie)

\* a slice out of order that holds two distinct elements comparing equal has
\* been sorted twice and collected
SortIdempotentWitness ==
    /\ term.op = "ToSlice" /\ term.st = "done" /\ SortedTwice
    /\ ~IsSorted(s.kids[1].kids[1].arg, s.arg)
    /\ HasTie(result, s.arg) /\ Len(result) = 3
    /\ tie = "swap"

\* ------------------------------------------------------------ C12, C13
\* the slices of the chunks, one after the other: each chunk is Of(chunk...)
RECURSIVE Concat(_)
Concat(chunks) ==
    IF chunks = <<>> THEN <<>> ELSE Head(chunks).arg \o Concat(Tail(chunks))

\* what the Streams of SpecChunk hold: a slice, the elements of a slice that
\* satisfy a predicate, the first n naturals
Whole(st) ==
    CASE st.op = "Of" -> st.arg
      [] st.op = "Filter" -> SelectSeq(st.kids[1].arg, LAMBDA v : Pred(st.arg, v))
      [] st.op = "Take" -> [k \in 1..st.arg |-> k - 1]

\* C12: for a finite s and k > 0, the chunks of s.Chunk(k), concatenated in
\* order, are s.ToSlice(): same elements, same order, nothing lost or
\* duplicated.  ToSlice of s collects the elements s holds, and the chunks
\* of Chunk(k) of s, one after the other, are those elements too.
ChunkReassembles ==
    /\ (term.op = "ToSlice" /\ term.st = "done") => result = Whole(s)
    /\ (term.op = "Chunk" /\ term.st = "done" /\ term.arg > 0) =>
          Concat(result) = Whole(s)

\* the three elements of a slice were split in chunks of two
ChunkReassemblesWitness ==
    /\ term.op = "Chunk" /\ term.st = "done" /\ term.arg = 2
    /\ s.op = "Of" /\ Len(s.arg) = 3 /\ Len(result) = 2 /\ s.arg[1] # s.arg[3]

CeilDiv(n, size) == (n + size - 1) \div size

\* C13: for size > 0, Chunk returns ceil(len(s)/size) chunks, each but the
\* last of size elements and the last of 1..size (none for an empty s); for
\* size <= 0 it returns no chunks.
ChunkSizes ==
    (term.op = "Chunk" /\ term.st = "done") =>
        IF term.arg > 0
        THEN /\ Len(result) = CeilDiv(obs.delivered, term.arg)
             /\ \A k \in 1..(Len(result) - 1) : Len(result[k].arg) = term.arg
             /\ result # <<>> =>
                    Len(result[Len(result)].arg) \in 1..term.arg
             /\ obs.delivered = 0 => result = <<>>
        ELSE result = <<>>

\* three elements have been split in chunks of two: a full chunk and a short one
ChunkSizesWitness ==
    /\ term.op = "Chunk" /\ term.st = "done" /\ term.arg = 2
    /\ obs.delivered = 3 /\ Len(result) = 2 /\ Len(result[2].arg) = 1

\* Chunk has returned nil for a size that is not positive
ChunkNilWitness ==
    /\ term.op = "Chunk" /\ term.st = "done" /\ term.arg <= 0
    /\ s.op = "Of" /\ Len(s.arg) = 3 /\ obs.drives = 0

\* ------------------------------------------------------------ C14, C15
\* what the sources of SpecFilter hold: Of(items...) and Of(items...).Map(inc)
Elems(st) ==
    IF st.op = "Of" THEN st.arg
    ELSE [k \in DOMAIN st.kids[1].arg |-> Fn(st.arg, st.kids[1].arg[k])]

Matching(items, predicate) == SelectSeq(items, LAMBDA v : Pred(predicate, v))

Ended(op) == term.op = op /\ term.st = "done"

\* C14: s.Filter(p).Count() is the number of elements of s.ToSlice() that
\* satisfy p, and s.Filter(p).ToSlice() is those elements in source order.
FilterCount ==
    /\ (Ended("ToSlice") /\ s \in FilterSources) => result = Elems(s)
    /\ (Ended("Count") /\ s.op = "Filter") =>
          result = Len(Matching(Elems(s.kids[1]), s.arg))
    /\ (Ended("ToSlice") /\ s.op = "Filter") =>
          result = Matching(Elems(s.kids[1]), s.arg)

\* a Filter that keeps one of three elements, with one rejected on either
\* side of it, has been counted
FilterCountWitness ==
    /\ Ended("Count") /\ s.op = "Filter" /\ s.kids[1].op = "Of"
    /\ Len(s.kids[1].arg) = 3 /\ result = 1
    /\ Pred(s.arg, s.kids[1].arg[2])

\* the first elements of Naturals, as far as the model follows a generator
NatPrefix == [k \in 1..(MaxEmit + 2) |-> k - 1]

Produced(src) == IF src.op = "Of" THEN src.arg ELSE NatPrefix

\* the place in items of its n-th element that satisfies the predicate, or
\* the length of items when fewer than n do
RECURSIVE NthMatch(_, _, _, _)
NthMatch(items, predicate, n, k) ==
    IF k > Len(items) THEN Len(items)
    ELSE IF Pred(predicate, items[k])
         THEN IF n = 1 THEN k ELSE NthMatch(items, predicate, n - 1, k + 1)
         ELSE NthMatch(items, predicate, n, k + 1)

FilterTake == s.op = "Take" /\ s.kids[1].op = "Filter"

Needed == NthMatch(Produced(s.kids[1].kids[1]), s.kids[1].arg, s.arg, 1)

\* C15: in a drive of s.Filter(p).Take(n), n > 0, the source produces its
\* elements only up to and including the n-th that satisfies p (all of them
\* when fewer than n do), and p is called on no element after that one.
LazyFilterTake ==
    FilterTake =>
        /\ fr[<<1, 1>>].out <= Needed
        /\ s.kids[1].kids[1].op = "Of" => obs.calls <= Needed
        /\ (Ended("ToSlice") /\ s.kids[1].kids[1].op = "Of") =>
              fr[<<1, 1>>].out = Needed

\* a Take of a Filter has collected its n elements while the source still
\* had an element it never produced
LazyFilterTakeWitness ==
    /\ FilterTake /\ Ended("ToSlice") /\ s.kids[1].kids[1].op = "Of"
    /\ Len(result) = s.arg
    /\ fr[<<1, 1>>].out = 2 /\ Len(s.kids[1].kids[1].arg) = 3

\* ------------------------------------------------------------ C16
\* where the Chain of SpecChain is: at the root or under a Take
ChainPath == IF s.op = "Chain" THEN <<>> ELSE <<1>>
ChainNode == NodeAt(s, ChainPath)
Member(k) == ChainPath \o <<k>>

\* member k has been driven to its end in this drive
Exhausted(k) ==
    /\ fr[Member(k)].act = 1 /\ fr[Member(k)].pc = "done"
    /\ fr[Member(k)].out = Len(ChainNode.kids[k].arg)

\* C16: s.Chain(o1, ..., ok) yields all of s, then all of o1, ..., then all
\* of ok; a member is driven only when every earlier member is exhausted and
\* no loop body has stopped; once the consumer has stopped during a member no
\* later member is driven.
ChainInOrder ==
    /\ [](Ended("ToSlice") =>
            LET all == Concat(ChainNode.kids)
            IN result = IF s.op = "Chain" THEN all
                        ELSE SubSeq(all, 1, Min2(s.arg, Len(all))))
    /\ [](fr[ChainPath].exit =>
            \A k \in DOMAIN ChainNode.kids : k > fr[ChainPath].i => fr[Member(k)].act = 0)
    /\ [][\A k \in DOMAIN ChainNode.kids :
            fr'[Member(k)].act > fr[Member(k)].act =>
                /\ ~fr[ChainPath].exit
                /\ \A j \in 1..(k - 1) : Exhausted(j)]_vars

\* a Take stopped a Chain of three inside the second member, after the first
\* was exhausted: the third was never driven
ChainInOrderWitness ==
    /\ Ended("ToSlice") /\ s.op = "Take" /\ Len(ChainNode.kids) = 3
    /\ Exhausted(1) /\ fr[Member(1)].out = 1
    /\ fr[ChainPath].exit /\ fr[ChainPath].i = 2
    /\ fr[Member(2)].out = 1 /\ Len(ChainNode.kids[2].arg) = 2
    /\ fr[Member(3)].act = 0 /\ Len(ChainNode.kids[3].arg) > 0

\* ------------------------------------------------------------ C17, C18
\* the number of elements at the head of items that satisfy the predicate
RECURSIVE Leading(_, _)
Leading(items, predicate) ==
    IF items = <<>> \/ ~Pred(predicate, Head(items)) THEN 0
    ELSE 1 + Leading(Tail(items), predicate)

\* what the source under the operator at the root holds
Under == Produced(s.kids[1])

\* the elements TakeWhile and DropWhile test: the leading ones and the first
\* that fails, when there is one
Tested == Min2(Leading(Under, s.arg) + 1, Len(Under))

Root == fr[<<>>]

\* C17: s.TakeWhile(p) yields the longest prefix of s whose elements satisfy
\* p; at the first failing element the drive stops for good: the source
\* yields nothing after that element and TakeWhile nothing at all.
TakeWhilePrefix ==
    /\ [](s.op = "TakeWhile" =>
            /\ fr[<<1>>].out <= Tested
            /\ Ended("ToSlice") =>
                  /\ result = SubSeq(Under, 1, Leading(Under, s.arg))
                  /\ fr[<<1>>].out = Tested)
    /\ [][(s.op = "TakeWhile" /\ Root.exit /\ Root'.act = Root.act) =>
            /\ Quiet(<<1>>)
            /\ Root'.out = Root.out /\ result' = result]_vars

\* a TakeWhile stopped at a failing second element and never saw a third
\* element that satisfies the predicate
TakeWhilePrefixWitness ==
    /\ s.op = "TakeWhile" /\ Ended("ToSlice") /\ s.kids[1].op = "Of"
    /\ Len(Under) = 3 /\ Pred(s.arg, Under[3]) /\ Len(result) = 1
    /\ fr[<<1>>].out = 2 /\ obs.drives = 2

\* C18: in each drive DropWhile starts dropping and discards elements while
\* p holds; the first failing element is forwarded and ends the dropping for
\* the rest of the drive: every later element is forwarded and p is not
\* called again; when every element satisfies p nothing is yielded.
DropWhileTwoStates ==
    /\ [](s.op = "DropWhile" =>
            /\ (Root.pc = "run" /\ Root.dropping) => Root.out = 0
            /\ obs.calls <= Tested
            /\ Ended("ToSlice") =>
                  /\ result = SubSeq(Under, Leading(Under, s.arg) + 1, Len(Under))
                  /\ obs.calls = Tested)
    /\ [][s.op = "DropWhile" =>
            /\ Root'.act > Root.act => Root'.dropping
            /\ (Root'.act = Root.act /\ Root.pc = "run") =>
                  /\ Root'.dropping => Root.dropping
                  /\ (Root.dropping /\ ~Root'.dropping) =>
                        /\ ctl.mode = "item" /\ ~Pred(s.arg, ctl.val)
                        /\ Root'.out = 1 /\ ctl'.val = ctl.val
                  /\ (~Root.dropping /\ ctl.who = "node" /\ ctl.at = <<>>
                          /\ ctl.mode = "item") =>
                        /\ Root'.out = Root.out + 1 /\ ctl'.val = ctl.val
                        /\ obs'.calls = obs.calls]_vars

\* a DropWhile has forwarded a failing element and then an element that
\* satisfies the predicate, in its second drive
DropWhileTwoStatesWitness ==
    /\ s.op = "DropWhile" /\ Ended("ToSlice") /\ obs.drives = 2
    /\ Len(Under) = 3 /\ Leading(Under, s.arg) = 1
    /\ Pred(s.arg, Under[3]) /\ Len(result) = 2 /\ obs.calls = 2

\* a DropWhile whose elements all satisfy the predicate has yielded nothing
DropWhileAllMatchWitness ==
    /\ s.op = "DropWhile" /\ Ended("ToSlice")
    /\ Len(Under) = 3 /\ Leading(Under, s.arg) = 3 /\ result = <<>>

\* ------------------------------------------------------------ C19
\* the first element of items for each key, in the order of items
RECURSIVE FirstOfKey(_, _, _)
FirstOfKey(items, key, seen) ==
    IF items = <<>> THEN <<>>
    ELSE IF Key(key, Head(items)) \in seen THEN FirstOfKey(Tail(items), key, seen)
         ELSE <<Head(items)>>
                 \o FirstOfKey(Tail(items), key, seen \cup {Key(key, Head(items))})

\* C19: s.Distinct(key) yields, in source order, the first element of each
\* key and no element whose key was seen before in the same drive; the set of
\* seen keys is empty when a drive starts.
DistinctFirsts ==
    /\ [](s.op = "Distinct" =>
            /\ Ended("ToSlice") => result = FirstOfKey(Under, s.arg, {})
            /\ Root.pc = "run" => Cardinality(Root.seen) = Root.out)
    /\ [][s.op = "Distinct" =>
            /\ Root'.act > Root.act => Root'.seen = {}
            /\ (Root'.act = Root.act /\ Root'.out > Root.out) =>
                  /\ Key(s.arg, ctl.val) \notin Root.seen
                  /\ ctl'.val = ctl.val]_vars

\* a Distinct by parity has dropped the third of three elements, whose key
\* the first had, in its second drive
DistinctFirstsWitness ==
    /\ s.op = "Distinct" /\ Ended("ToSlice") /\ obs.drives = 2
    /\ s.arg = "parity" /\ Len(Under) = 3 /\ Len(result) = 2
    /\ Under[1] # Under[3] /\ Key(s.arg, Under[1]) = Key(s.arg, Under[3])

\* ------------------------------------------------------------ C20
\* C20: for n > 0, s.TakeLast(n) yields the last min(n, len(s)) elements of
\* s in their order, and so every element when n >= len(s).
TakeLastSuffix ==
    (s.op = "TakeLast" /\ Ended("ToSlice")) =>
        /\ result = SubSeq(Under, Len(Under) - Min2(s.arg, Len(Under)) + 1, Len(Under))
        /\ s.arg >= Len(Under) => result = Under

\* a TakeLast(2) of three elements has yielded the last two
TakeLastSuffixWitness ==
    /\ s.op = "TakeLast" /\ Ended("ToSlice")
    /\ s.arg = 2 /\ Len(Under) = 3 /\ Len(result) = 2

\* a TakeLast(2) of one element has yielded it
TakeLastAllWitness ==
    /\ s.op = "TakeLast" /\ Ended("ToSlice")
    /\ s.arg = 2 /\ Len(Under) = 1 /\ Len(result) = 1

\* ------------------------------------------------------------ C21
\* s is what Take(n) or TakeLast(n) returned for an n <= 0
NothingAsked == s.op = "Empty" \/ (s.op \in {"Take", "TakeLast"} /\ s.arg <= 0)

\* C21: for n <= 0, s.Take(n) and s.TakeLast(n) are empty and driving them
\* never drives s: no closure of s is called, s produces no element and no
\* predicate, mapper or Peek function runs.
EmptyLeavesSource ==
    NothingAsked =>
        /\ obs.delivered = 0 /\ obs.calls = 0 /\ obs.probes = 0
        /\ \A p \in DOMAIN fr : p # <<>> => fr[p] = Idle
        /\ Ended("ToSlice") => result = <<>>
        /\ Ended("Count") => result = 0
        /\ Ended("First") => result = NotFound

\* the Stream of a Take(n) or TakeLast(n) with n <= 0 has been collected twice
EmptyLeavesSourceWitness ==
    /\ s.op = "Empty" /\ Ended("ToSlice") /\ obs.drives = 2 /\ fr[<<>>].act = 1

\* ------------------------------------------------------------ C22
\* the slice at the bottom of the Stream and the elements left after its
\* first n
Bottom == Leaf(s).arg
Rest(items, n) == SubSeq(items, Min2(Max2(n, 0), Len(items)) + 1, Len(items))

\* C22: s.Skip(n) discards the first min(max(n, 0), len(s)) elements of s and
\* forwards the others in order: every element for n <= 0 (Skip returns s
\* itself), none for n >= len(s).
SkipRest ==
    (s.op = "Peek" /\ Ended("ToSlice")) =>
        /\ s.kids[1].op = "Skip" =>
              /\ s.kids[1].arg > 0
              /\ result = Rest(Bottom, s.kids[1].arg)
              /\ s.kids[1].arg >= Len(Bottom) => result = <<>>
        /\ s.kids[1].op = "Of" => result = Bottom
    /\ \A items \in Items, n \in (-1)..0 : Skip(Of(items), n) = Of(items)

\* a Skip(2) of three elements has yielded the last one
SkipRestWitness ==
    /\ s.op = "Peek" /\ s.kids[1].op = "Skip" /\ Ended("ToSlice")
    /\ s.kids[1].arg = 2 /\ Len(Bottom) = 3 /\ result = <<Bottom[3]>>
    /\ Bottom[3] # Bottom[1]

\* ------------------------------------------------------------ C23
\* C23: s.Partition(p) returns (matched, unmatched): matched holds the
\* elements of s that satisfy p, unmatched those that do not, each in source
\* order, so that every element of s is in exactly one of the two.
PartitionSplits ==
    /\ Ended("Partition") =>
          /\ result[1].arg = Matching(Elems(s), term.arg)
          /\ result[2].arg = Matching(Elems(s), Negated(term.arg))
          /\ Len(result[1].arg) + Len(result[2].arg) = Len(Elems(s))
          /\ obs.delivered = Len(Elems(s))
    /\ (Ended("ToSlice") /\ obs.via = "Partition") => result = s.arg

\* three elements were split in a matched one and two unmatched ones around it
PartitionSplitsWitness ==
    /\ Ended("Partition") /\ s.op = "Of" /\ Len(s.arg) = 3
    /\ result[1].arg = <<s.arg[2]>> /\ result[2].arg = <<s.arg[1], s.arg[3]>>

\* ------------------------------------------------------------ C24
\* the elements the Stream of SpecFind holds
Held == Produced(s)

Range(q) == {q[k] : k \in DOMAIN q}

\* the elements among which the terminal operation looks for its result
Qualifying == IF term.op = "Find" THEN Matching(Held, term.arg) ELSE Held

\* v is the element the terminal operation is to return from q
Qualifies(v, q) ==
    CASE term.op \in {"First", "Find"} -> v = q[1]
      [] term.op = "Last" -> v = q[Len(q)]
      [] term.op = "Min" -> v \in Range(q) /\ \A x \in Range(q) : v <= x
      [] term.op = "Max" -> v \in Range(q) /\ \A x \in Range(q) : v >= x
      [] term.op = "MinBy" -> v \in Range(q) /\ \A x \in Range(q) : ~Less(term.arg, x, v)
      [] term.op = "MaxBy" -> v \in Range(q) /\ \A x \in Range(q) : ~Less(term.arg, v, x)

\* C24: First, Last, Find, MinBy, MaxBy, Min and Max return ok = false and
\* the zero value exactly when there is no qualifying element (s is empty, or
\* no element satisfies the predicate of Find), and ok = true with the
\* qualifying element otherwise.
FoundOrNot ==
    (term.st = "done"
        /\ term.op \in {"First", "Last", "Find", "MinBy", "MaxBy", "Min", "Max"}) =>
        /\ result.ok <=> Qualifying # <<>>
        /\ ~result.ok => result.v = 0
        /\ result.ok => Qualifies(result.v, Qualifying)

\* a Find over three elements, none of which satisfies the predicate, has
\* returned the zero value and false
FoundOrNotWitness ==
    /\ Ended("Find") /\ s.op = "Of" /\ Len(Held) = 3
    /\ Matching(Held, term.arg) = <<>> /\ result = NotFound

\* a Last over three elements has returned the third and true
FoundLastWitness ==
    /\ Ended("Last") /\ s.op = "Of" /\ Len(Held) = 3
    /\ result = Found(Held[3]) /\ Held[3] # Held[2]

\* ------------------------------------------------------------ C26
\* the number of elements the terminal operation needs: the place of the
\* first element that decides its result, or all of them
Deciding ==
    CASE term.op \in {"Find", "Any"} -> NthMatch(Held, term.arg, 1, 1)
      [] term.op = "All" -> NthMatch(Held, Negated(term.arg), 1, 1)
      [] term.op \in {"First", "IsEmpty"} -> Min2(1, Len(Held))

\* C26: Find(p) and Any(p) stop the drive at the first element satisfying p
\* and All(p) at the first failing it: the source produces as many elements
\* as the place of that element, all of them when there is none; First and
\* IsEmpty make the source produce at most one element.
TerminalStops ==
    (term.op \in {"Find", "Any", "All", "First", "IsEmpty"} /\ Root.act > 0) =>
        /\ Root.act = 1
        /\ Root.out <= Deciding
        /\ term.st = "done" =>
              /\ Root.out = Deciding
              /\ term.op = "Any" => (result <=> Matching(Held, term.arg) # <<>>)
              /\ term.op = "All" => (result <=> Matching(Held, Negated(term.arg)) = <<>>)
              /\ term.op = "IsEmpty" => (result <=> Held = <<>>)

\* an All over three elements has stopped at the second, which fails the
\* predicate: the third was never produced
TerminalStopsWitness ==
    /\ Ended("All") /\ s.op = "Of" /\ Len(Held) = 3
    /\ Pred(term.arg, Held[1]) /\ ~Pred(term.arg, Held[2])
    /\ Root.out = 2 /\ result = FALSE

\* ------------------------------------------------------------ C30
\* x is worse than y for the terminal operation: MinBy looks for an element
\* that no element is less than, MaxBy for one that is less than no element
Beats(y, x) ==
    IF term.op = "MinBy" THEN Less(term.arg, y, x) ELSE Less(term.arg, x, y)

\* the first place in q of an element that none beats
FirstBest(q) ==
    CHOOSE k \in DOMAIN q :
        /\ \A j \in DOMAIN q : ~Beats(q[j], q[k])
        /\ \A i \in 1..(k - 1) : \E j \in DOMAIN q : Beats(q[j], q[i])

\* C30: when several elements are minimal under less MinBy returns the one
\* that comes first in source order, and MaxBy the first of the maximal
\* ones; the best so far is replaced only by an element strictly better.
FirstOfTies ==
    /\ []((term.st = "done" /\ term.op \in {"MinBy", "MaxBy"} /\ Held # <<>>) =>
            result = Found(Held[FirstBest(Held)]))
    /\ [][(term.op \in {"MinBy", "MaxBy"} /\ term.st = "run" /\ result.ok
                /\ result' # result) =>
            /\ ctl.mode = "item" /\ result' = Found(ctl.val)
            /\ Beats(ctl.val, result.v)]_vars

\* MaxBy has returned the first of two different elements that compare equal
FirstOfTiesWitness ==
    /\ Ended("MaxBy") /\ term.arg = "half" /\ s.op = "Of"
    /\ Held = <<1, 2, 3>> /\ result = Found(2)

\* MinBy has returned the first of two different elements that compare equal
FirstOfTiesMinWitness ==
    /\ Ended("MinBy") /\ term.arg = "half" /\ s.op = "Of"
    /\ Held = <<3, 2>> /\ result = Found(3)

\* ------------------------------------------------------------ C25
RECURSIVE Total(_)
Total(q) == IF q = <<>> THEN 0 ELSE Head(q) + Total(Tail(q))

\* the numbers the summary adds up
Summands ==
    IF term.op \in {"SumBy", "AvgBy"}
    THEN [k \in DOMAIN s.arg |-> Fn(term.arg, s.arg[k])]
    ELSE s.arg

\* what the summary returns for a Stream without elements
OfNothing == IF term.op \in {"Sum", "SumBy"} THEN 0 ELSE Float(0, 1)

Summed == term.st = "done" /\ term.op \in {"Sum", "SumBy", "Avg", "AvgBy"}

\* C25: Sum, Avg, SumBy and AvgBy of an empty Stream return a result that
\* tells the empty input from a non-empty input whose sum or average is 0:
\* no non-empty Stream gets the result the empty Stream gets.
EmptySummarySignalled ==
    (Summed /\ s.arg # <<>>) => result # OfNothing

\* C25, what the summaries return: the sum of the numbers, and for Avg and
\* AvgBy that sum divided by their count, with 0 for a Stream without
\* elements.
SummaryValues ==
    Summed =>
        IF term.op \in {"Sum", "SumBy"} THEN result = Total(Summands)
        ELSE IF s.arg = <<>> THEN result = Float(0, 1)
        ELSE result = Float(Total(Summands), Len(s.arg))

\* the Sum of a Stream of two elements is the 0 that an empty Stream gets
EmptySummaryWitness ==
    /\ Ended("Sum") /\ s.arg = <<-1, 1>> /\ result = 0 /\ OfNothing = 0

\* ------------------------------------------------------------ From copies

\* what a drive collects is the start of the slice as it was given
StartOf(given) ==
    /\ Len(result) <= Len(given)
    /\ \A j \in 1..Len(result) : result[j] = given[j]

\* C27: From(items) copies the slice at construction: whatever the caller
\* writes to items after From has returned, every later drive of the Stream
\* produces the elements items had when From was called.
FromCopies ==
    obs.via = "From" =>
        /\ term.op = "ToSlice" => StartOf(obs.given)
        /\ Ended("ToSlice") => result = obs.given
        /\ Ended("First") =>
              result = (IF obs.given = <<>> THEN NotFound ELSE Found(obs.given[1]))

\* the caller has overwritten an element of a slice of three before the drive
\* began, and ToSlice has collected the three elements as they were given
FromCopiesWitness ==
    /\ obs.via = "From" /\ Len(obs.given) = 3
    /\ obs.writes = 1 /\ obs.wrote < obs.drives /\ obs.items # obs.given
    /\ Ended("ToSlice") /\ result = obs.given

\* ------------------------------------------------------------ Zip in step

\* the elements the k-th Stream under the root has produced in this drive
Made(k) == IF fr[<<k>>].act = Root.act THEN fr[<<k>>].out ELSE 0

\* next() has reported that seq2 is exhausted
SecondExhausted ==
    /\ ctl.who = "node" /\ ctl.at = <<>> /\ ctl.mode = "done" /\ ctl.from = 2
    /\ Root.pc = "next"

\* C28: in a drive of Zip(a, b), b has at every point produced at most as
\* many elements as a; driven to its end, b has produced min(len(a), len(b))
\* elements and a one more than b when a is the longer, as many as it has
\* otherwise; the exhaustion of b is observed only when a has produced one
\* element more than b holds, and that element is in no pair.
ZipInStep ==
    s.op = "Zip" =>
        LET a == s.kids[1]
            b == s.kids[2]
        IN /\ Made(2) <= Made(1)
           /\ (Ended("ToSlice") /\ a.op = "Of" /\ b.op = "Of") =>
                 /\ Made(2) = Min2(Len(a.arg), Len(b.arg))
                 /\ Made(1) = (IF Len(a.arg) > Len(b.arg) THEN Len(b.arg) + 1
                                ELSE Len(a.arg))
                 /\ Len(result) = Made(2)
           /\ (Ended("ToSlice") /\ a.op = "Of" /\ a.arg = <<>>) => fr[<<2>>].act = 0
           /\ SecondExhausted =>
                 /\ b.op = "Of" /\ Made(2) = Len(b.arg) /\ Made(1) = Len(b.arg) + 1
                 /\ a.op = "Of" => Len(a.arg) > Len(b.arg)

\* a of three elements against b of two, collected on a second drive: b has
\* produced two elements and a three, the third in no pair
ZipInStepWitness ==
    /\ s.op = "Zip" /\ s.kids[1].op = "Of" /\ s.kids[2].op = "Of"
    /\ Len(s.kids[1].arg) = 3 /\ Len(s.kids[2].arg) = 2
    /\ Ended("ToSlice") /\ obs.drives = 2
    /\ Made(1) = 3 /\ Made(2) = 2 /\ Len(result) = 2

\* a is empty and b is not: the drive is over and b was never called
ZipEmptyFirstWitness ==
    /\ s.op = "Zip" /\ s.kids[1].op = "Of" /\ s.kids[1].arg = <<>>
    /\ s.kids[2].op = "Of" /\ Len(s.kids[2].arg) = 2
    /\ Ended("ToSlice") /\ fr[<<2>>].act = 0 /\ result = <<>>

\* the unbounded a has produced a third element and b, of two, is found
\* exhausted
ZipExhaustedWitness ==
    /\ s.op = "Zip" /\ s.kids[1].op = "Iterate" /\ s.kids[2].op = "Of"
    /\ Len(s.kids[2].arg) = 2 /\ SecondExhausted /\ Made(1) = 3

\* ------------------------------------------------------------ no look-ahead

\* Take at the root over an Iterate
TakeOfIterate == s.op = "Take" /\ s.kids[1].op = "Iterate"

\* C29: in a drive of Iterate(seed, f).Take(n), n >= 1, f has at every point
\* been applied once less often than Iterate has yielded, and n - 1 times
\* when the drive has run to its end; f is applied only in the step in which
\* the yield of Iterate has returned true.
IterateNoLookAhead ==
    /\ [](TakeOfIterate =>
             /\ s.arg >= 1
             /\ obs.calls = (IF fr[<<1>>].act = 0 THEN 0 ELSE fr[<<1>>].out - 1)
             /\ Ended("ToSlice") => obs.calls = s.arg - 1 /\ Len(result) = s.arg
             /\ Ended("First") => obs.calls = 0)
    /\ [][(TakeOfIterate /\ s' = s /\ obs'.calls > obs.calls) =>
             (ctl.who = "node" /\ ctl.at = <<1>> /\ ctl.mode = "ret" /\ ctl.ok
                 /\ obs'.calls = obs.calls + 1)]_vars

\* Iterate(1, dbl).Take(MaxN) has been collected: MaxN elements, and the step
\* function was applied MaxN - 1 times
IterateNoLookAheadWitness ==
    /\ TakeOfIterate /\ s.arg = MaxN /\ s.kids[1].arg = <<1, "dbl">>
    /\ Ended("ToSlice") /\ Len(result) = MaxN /\ result[MaxN] = 2 ^ (MaxN - 1)
    /\ obs.calls = MaxN - 1

====
